---- MODULE Spec2Model ----
(***************************************************************************)
(* RunSound AI: the playlist pipelines (alternative_recommender.py,        *)
(* ml_recommender.py), the Spotify client calls they make                  *)
(* (spotify_client.py) and the pure selection functions they use.          *)
(*                                                                         *)
(* Numbers: tempo is in BPM; energy and valence are in hundredths          *)
(* (0.25 is 25); pace is in tenths of a minute per km (6.5 is 65);         *)
(* temperature is in whole degrees C and distance in whole km.             *)
(* A track is a record [id, uri, name]; id 0 stands for a missing/None id  *)
(* (falsy for t.get('id')).  The name field stands for the rest of the     *)
(* payload of one search hit, so two hits of one id can differ.            *)
(***************************************************************************)
EXTENDS Integers, Sequences, FiniteSets, TLC

---------------------------------------------------------------------------
(* Bounds of the model *)

\* random.shuffle outcomes explored: rotations by 0..MaxShift, each also reversed
MaxShift == 1
\* pure-function checks: candidate lists of 0..MaxSmallLen tracks, and lists
\* of up to MaxSmallLen tracks around the program's size limits
MaxSmallLen == 7

---------------------------------------------------------------------------
(* Program constants *)

MIN_FILTERED_TRACKS == 15
MIN_UNIQUE_TRACKS == 20
PLAYLIST_SIZE == 30
MAX_QUERIES == 5
AUDIO_FEATURES_MAX_IDS == 100
ADD_TRACKS_BATCH == 100
PROGRESSIVE_MIN_KM == 12
MIN_SEGMENT == 3
SEGMENT_DIVISOR == 5
FAST_PACE == 50
SLOW_PACE == 65
COLD_TEMP == 5
HOT_TEMP == 25
ULTRA_KM == 15
HTTP_OK == 200
RECOMMENDATION_LIMIT == 30
\* the statuses a call can come back with: success, or some failure
Statuses == {HTTP_OK, 500}

Min(a, b) == IF a < b THEN a ELSE b
Max(a, b) == IF a > b THEN a ELSE b
Abs(x) == IF x < 0 THEN -x ELSE x

TEMPO_MAP(intent) ==
    CASE intent = "slow" -> [target_tempo |-> 120, target_energy |-> 40, target_valence |-> 50]
      [] intent = "steady" -> [target_tempo |-> 140, target_energy |-> 60, target_valence |-> 60]
      [] intent = "fast" -> [target_tempo |-> 160, target_energy |-> 80, target_valence |-> 70]

Intents == {"slow", "steady", "fast"}

SEARCH_QUERIES(intent) ==
    CASE intent = "slow" ->
           <<"chill running", "easy jog", "recovery run", "acoustic workout", "slow tempo">>
      [] intent = "steady" ->
           <<"running playlist", "jogging music", "endurance run", "workout mix", "running songs">>
      [] intent = "fast" ->
           <<"high energy workout", "fast running", "interval training", "tempo run", "speed workout">>

\* tolerances passed at alternative_recommender.py:159-161 and :175-177,
\* and the defaults of filter_tracks_by_audio_features
STRICT_TOLERANCE == [tempo |-> 25, energy |-> 25, valence |-> 35]
RELAXED_TOLERANCE == [tempo |-> 40, energy |-> 40, valence |-> 50]
DEFAULT_TOLERANCE == [tempo |-> 20, energy |-> 30, valence |-> 30]

---------------------------------------------------------------------------
(* Tracks and the external services *)

Track(id, name) == [id |-> id, uri |-> id, name |-> name]

\* ids lo .. lo+n-1, as one search response
Block(lo, n, name) == [i \in 1..n |-> Track(lo + i - 1, name)]

\* The audio-feature service: what /audio-features holds for a track id.
\* present = FALSE is the null entry the service returns for an id it has no
\* analysis for.  The classes put tracks on, just inside and just outside the
\* tolerance windows of the three intents.
AudioFeatureOf(id) ==
    LET c == id % 8
    IN  CASE c = 0 -> [id |-> id, present |-> TRUE, tempo |-> 140, energy |-> 60, valence |-> 60]
          [] c = 1 -> [id |-> id, present |-> TRUE, tempo |-> 165, energy |-> 85, valence |-> 95]
          [] c = 2 -> [id |-> id, present |-> TRUE, tempo |-> 115, energy |-> 35, valence |-> 25]
          [] c = 3 -> [id |-> id, present |-> TRUE, tempo |-> 150, energy |-> 70, valence |-> 70]
          [] c = 4 -> [id |-> id, present |-> TRUE, tempo |-> 166, energy |-> 60, valence |-> 60]
          [] c = 5 -> [id |-> id, present |-> TRUE, tempo |-> 180, energy |-> 100, valence |-> 100]
          [] c = 6 -> [id |-> id, present |-> TRUE, tempo |-> 181, energy |-> 60, valence |-> 60]
          [] OTHER -> [id |-> id, present |-> FALSE, tempo |-> 0, energy |-> 0, valence |-> 0]

---------------------------------------------------------------------------
(* Python list operations *)

\* s[a:b] for a list s: negative indices count from the end, both are clamped
PyIndex(n, i) == IF i < 0 THEN Max(i + n, 0) ELSE Min(i, n)
PySlice(s, a, b) ==
    LET lo == PyIndex(Len(s), a)
        hi == PyIndex(Len(s), b)
    IN  IF lo < hi THEN SubSeq(s, lo + 1, hi) ELSE <<>>

Front(s) == SubSeq(s, 1, Len(s) - 1)
Last(s) == s[Len(s)]

RECURSIVE Flatten(_)
Flatten(ss) == IF ss = <<>> THEN <<>> ELSE Flatten(Front(ss)) \o Last(ss)

\* One outcome of random.shuffle(s): a permutation of s.  The outcomes explored
\* are the rotations of s by k places, and their reversals.
Rotate(s, k) ==
    IF s = <<>> THEN s ELSE [i \in 1..Len(s) |-> s[((i - 1 + k) % Len(s)) + 1]]
Reverse(s) == [i \in 1..Len(s) |-> s[Len(s) + 1 - i]]
Shuffle(s, k, rev) == IF rev THEN Reverse(Rotate(s, k)) ELSE Rotate(s, k)
Shifts == 0..MaxShift

---------------------------------------------------------------------------
(* Deduplication: {t['id']: t for t in all_tracks if t.get('id')} and         *)
(* list(unique_tracks.values()).  A dict keeps a key at the position of its *)
(* first insertion; storing under an existing key replaces the value there. *)

\* the positions of s at which a key is inserted: the first occurrence of each id
KeySlots_LastOccurrence(s) ==
    {i \in 1..Len(s) : \A j \in (i + 1)..Len(s) : s[j].id # s[i].id}

KeySlots(s) ==
    {i \in 1..Len(s) : \A j \in 1..(i - 1) : s[j].id # s[i].id}

\* the value the dict holds in the end under the key inserted at position i:
\* the one stored last under that key
StoredValue(s, i) ==
    s[CHOOSE j \in i..Len(s) :
         /\ s[j].id = s[i].id
         /\ \A l \in (j + 1)..Len(s) : s[l].id # s[i].id]

DictValues(tracks) ==
    LET s == SelectSeq(tracks, LAMBDA t: t.id # 0)
        slots == KeySlots(s)
    IN  [k \in 1..Cardinality(slots) |->
            StoredValue(s, CHOOSE i \in slots : Cardinality({j \in slots : j < i}) = k - 1)]

unique_tracks(all) == DictValues(all)

---------------------------------------------------------------------------
(* spotify_client.get_audio_features_for_tracks and                        *)
(* alternative_recommender.filter_tracks_by_audio_features                 *)

\* the ids put in the request: track_ids[:100]
RequestedIds(track_ids) == PySlice(track_ids, 0, AUDIO_FEATURES_MAX_IDS)

\* the value returned when the request comes back with `status`
get_audio_features_for_tracks(track_ids, status) ==
    IF track_ids = <<>> THEN <<>>
    ELSE IF status # HTTP_OK THEN <<>>
    ELSE [i \in 1..Len(RequestedIds(track_ids)) |-> AudioFeatureOf(RequestedIds(track_ids)[i])]

TrackIds(tracks) ==
    LET withId == SelectSeq(tracks, LAMBDA t: t.id # 0)
    IN  [i \in 1..Len(withId) |-> withId[i].id]

FeatureMatch(f, target, tol) ==
    /\ Abs(f.tempo - target.target_tempo) <= tol.tempo
    /\ Abs(f.energy - target.target_energy) <= tol.energy
    /\ Abs(f.valence - target.target_valence) <= tol.valence

\* audio_features is what the collaborator returned for TrackIds(tracks).
\* features_map holds the non-null entries by id.  The service gives every entry
\* its tempo, energy and valence, so the .get(..., 0) defaults are never taken.
\* The '_audio_features' annotation put on a kept track (lines 100-104) is only
\* printed with the sample tracks and is left out of the track record.
filter_tracks_by_audio_features(tracks, target, tol, audio_features) ==
    IF tracks = <<>> THEN <<>>
    ELSE LET features_map == {audio_features[i] : i \in {j \in 1..Len(audio_features) :
                                                          audio_features[j].present}}
         IN  SelectSeq(tracks, LAMBDA t:
                 /\ t.id # 0
                 /\ \E f \in features_map : f.id = t.id /\ FeatureMatch(f, target, tol))

\* if len(filtered_tracks) < 15: relax
NeedsRelaxing_OnlyWhenEmpty(filtered) == Len(filtered) = 0

NeedsRelaxing(filtered) == Len(filtered) < MIN_FILTERED_TRACKS

\* a sample that is not capped at 30 tracks
random_sample_Uncapped(population, shift, rev) == Shuffle(population, shift, rev)

\* random.sample(population, min(30, len(population))): that many distinct
\* elements in random order, here the head of one shuffle outcome
random_sample(population, shift, rev) ==
    PySlice(Shuffle(population, shift, rev), 0, Min(PLAYLIST_SIZE, Len(population)))

---------------------------------------------------------------------------
(* ml_recommender.get_search_queries_for_run and create_progressive_playlist *)

RunTypes == {"easy", "tempo", "interval", "long", "race", "steady"}

\* " OR ".join(preferred_genres[:3]) for learn_genre_preferences()
genre_string == "pop OR indie OR rap"
\* f"{q} ({genre_string})"
Query(q) == <<q, genre_string>>

query_templates(run_type) ==
    CASE run_type = "interval" ->
           <<"high intensity workout", "HIIT training music", "explosive energy running">>
      [] run_type = "tempo" ->
           <<"threshold running", "sustained effort workout", "driving beat running">>
      [] run_type = "easy" ->
           <<"easy running chill", "recovery jog music", "relaxed workout">>
      [] run_type = "race" ->
           <<"race day motivation", "peak performance running", "championship energy">>
      [] run_type = "long" ->
           <<"endurance running", "marathon training music", "steady pace long run">>
      [] OTHER ->
           <<"running playlist", "jogging music", "workout motivation">>

get_search_queries_for_run(run_features) ==
    LET base_queries == query_templates(run_features.run_type)
        pace == run_features.avg_pace_min_km
        temp == run_features.temp_c
        distance == run_features.distance_km
    IN  [i \in 1..Len(base_queries) |-> Query(base_queries[i])]
        \o (IF pace < FAST_PACE THEN <<Query("fast running high energy")>>
            ELSE IF pace > SLOW_PACE THEN <<Query("slow tempo chill running")>>
            ELSE <<>>)
        \o (IF temp < COLD_TEMP THEN <<Query("cold weather running motivation")>>
            ELSE IF temp > HOT_TEMP THEN <<Query("summer running upbeat")>>
            ELSE <<>>)
        \o (IF distance > ULTRA_KM THEN <<Query("ultra distance endurance")>> ELSE <<>>)

\* for query in queries[:5]
LimitQueries_OneFewer(queries) == PySlice(queries, 0, MAX_QUERIES - 1)

LimitQueries(queries) == PySlice(queries, 0, MAX_QUERIES)

\* f"running motivation {preferred_genres[0]}"
backup_query == <<"running motivation", "pop">>

\* if len(all_tracks) < 20: add the backup query
NeedsBackup_AtOrBelow(tracks) == Len(tracks) <= MIN_UNIQUE_TRACKS

NeedsBackup(tracks) == Len(tracks) < MIN_UNIQUE_TRACKS

\* shuffled is the list after random.shuffle(tracks); the value is the three
\* segments and the list returned
create_progressive_playlist(shuffled, run_type, distance_km) ==
    IF run_type # "long" \/ distance_km < PROGRESSIVE_MIN_KM
    THEN [progressive |-> FALSE, warmup |-> <<>>, main_section |-> <<>>, finish |-> <<>>,
          result |-> PySlice(shuffled, 0, PLAYLIST_SIZE)]
    ELSE LET n == Min(Len(shuffled), PLAYLIST_SIZE)
             warmup_count == Max(MIN_SEGMENT, n \div SEGMENT_DIVISOR)
             finish_count == Max(MIN_SEGMENT, n \div SEGMENT_DIVISOR)
             main_count == n - warmup_count - finish_count
             warmup == PySlice(shuffled, 0, warmup_count)
             main_section == PySlice(shuffled, warmup_count, warmup_count + main_count)
             finish == PySlice(shuffled, warmup_count + main_count,
                               warmup_count + main_count + finish_count)
         IN  [progressive |-> TRUE, warmup |-> warmup, main_section |-> main_section,
              finish |-> finish, result |-> warmup \o main_section \o finish]

\* spotify_client.add_tracks_to_playlist: the URIs go out in batches of 100 and
\* a rejected batch raises.  failAt = 0: every batch is accepted; failAt = k:
\* the k-th batch is rejected.  posts are the batches sent, in order.
Batches_WholeOnly(uris) ==
    [b \in 1..(Len(uris) \div ADD_TRACKS_BATCH) |->
        PySlice(uris, (b - 1) * ADD_TRACKS_BATCH, b * ADD_TRACKS_BATCH)]

Batches(uris) ==
    [b \in 1..((Len(uris) + ADD_TRACKS_BATCH - 1) \div ADD_TRACKS_BATCH) |->
        PySlice(uris, (b - 1) * ADD_TRACKS_BATCH, b * ADD_TRACKS_BATCH)]

\* a rejected batch ends the loop without raising
add_tracks_to_playlist_Swallows(uris, failAt) ==
    LET batches == Batches(uris)
        sent == IF failAt = 0 THEN batches ELSE SubSeq(batches, 1, failAt)
        accepted == IF failAt = 0 THEN batches ELSE SubSeq(batches, 1, failAt - 1)
    IN  [posts |-> sent, added |-> Flatten(accepted), raised |-> FALSE]

add_tracks_to_playlist(uris, failAt) ==
    LET batches == Batches(uris)
        sent == IF failAt = 0 THEN batches ELSE SubSeq(batches, 1, failAt)
        accepted == IF failAt = 0 THEN batches ELSE SubSeq(batches, 1, failAt - 1)
    IN  [posts |-> sent, added |-> Flatten(accepted), raised |-> failAt # 0]

TrackUris(tracks) == [i \in 1..Len(tracks) |-> tracks[i].uri]

\* alternative_recommender.search_tracks_by_query: the items of a 200 answer,
\* [] for any other status
search_tracks_by_query(response) ==
    IF response.status # HTTP_OK THEN <<>> ELSE response.items

---------------------------------------------------------------------------
(* feature_engineer: the features derived from a run.  Paces are in tenths  *)
(* of a minute per kilometre, distances in metres, temperatures in whole    *)
(* degrees Celsius, times in whole hours.                                   *)

\* PACE_TO_BPM_MAPPING, in the order the dict lists its keys
PACE_TO_BPM_MAPPING ==
    << [lower |-> 40, upper |-> 45, bpm |-> 180],
       [lower |-> 45, upper |-> 50, bpm |-> 170],
       [lower |-> 50, upper |-> 55, bpm |-> 165],
       [lower |-> 55, upper |-> 60, bpm |-> 160],
       [lower |-> 60, upper |-> 70, bpm |-> 150],
       [lower |-> 70, upper |-> 80, bpm |-> 140] >>

\* an interval closed at its upper end instead of its lower end
PaceInRange_UpperClosed(range, pace_min_km) ==
    range.lower < pace_min_km /\ pace_min_km <= range.upper

\* if lower <= pace_min_km < upper
PaceInRange(range, pace_min_km) ==
    range.lower <= pace_min_km /\ pace_min_km < range.upper

\* the first interval of the table that holds the pace; outside the table 185
\* below the smallest lower bound and 135 otherwise
map_pace_to_bpm(pace_min_km) ==
    LET hits == {i \in 1..Len(PACE_TO_BPM_MAPPING) :
                    PaceInRange(PACE_TO_BPM_MAPPING[i], pace_min_km)}
        lowers == {PACE_TO_BPM_MAPPING[i].lower : i \in 1..Len(PACE_TO_BPM_MAPPING)}
    IN  IF hits # {}
        THEN PACE_TO_BPM_MAPPING[CHOOSE i \in hits : \A j \in hits : i <= j].bpm
        ELSE IF pace_min_km < (CHOOSE l \in lowers : \A m \in lowers : l <= m)
             THEN 185
             ELSE 135

\* a text is the sequence of its characters
UpperCase == <<"A", "B", "C", "D", "E", "F", "G", "H", "I", "J", "K", "L", "M">>
             \o <<"N", "O", "P", "Q", "R", "S", "T", "U", "V", "W", "X", "Y", "Z">>
LowerCase == <<"a", "b", "c", "d", "e", "f", "g", "h", "i", "j", "k", "l", "m">>
             \o <<"n", "o", "p", "q", "r", "s", "t", "u", "v", "w", "x", "y", "z">>
\* str.lower()
str_lower(text) ==
    [i \in 1..Len(text) |->
        IF \E k \in 1..Len(UpperCase) : UpperCase[k] = text[i]
        THEN LowerCase[CHOOSE k \in 1..Len(UpperCase) : UpperCase[k] = text[i]]
        ELSE text[i]]
\* kw in text
Contains(text, kw) ==
    \E i \in 1..(Len(text) - Len(kw) + 1) : SubSeq(text, i, i + Len(kw) - 1) = kw
\* any(kw in text for kw in keywords)
AnyKeyword(text, keywords) == \E kw \in keywords : Contains(text, kw)

interval_keywords ==
    {<<"i", "n", "t", "e", "r", "v", "a", "l">>,
      <<"m", "a", "s">>,
      <<"r", "e", "p", "e", "a", "t">>,
      <<"4", "0", "0", "m">>,
      <<"2", "0", "0", "m">>}
tempo_keywords ==
    {<<"t", "e", "m", "p", "o">>,
      <<"t", "h", "r", "e", "s", "h", "o", "l", "d">>,
      <<"m", "a", "r", "a", "t", "h", "o", "n", " ", "p", "a", "c", "e">>}
easy_keywords ==
    {<<"e", "a", "s", "y">>,
      <<"r", "e", "c", "o", "v", "e", "r", "y">>,
      <<"s", "l", "o", "w">>,
      <<"j", "o", "g">>}
race_keywords ==
    {<<"r", "a", "c", "e">>,
      <<"c", "o", "m", "p", "e", "t", "i", "t", "i", "o", "n">>,
      <<"p", "r">>}

\* a run counts as long from 15 km on
LongDistance_AtLeast(distance_km) == distance_km >= 15000

\* distance_km > 15
LongDistance(distance_km) == distance_km > 15000

detect_run_type(run_name, pace_min_km, distance_km) ==
    LET name_lower == str_lower(run_name)
    IN  IF AnyKeyword(name_lower, interval_keywords) THEN "interval"
        ELSE IF AnyKeyword(name_lower, tempo_keywords) THEN "tempo"
        ELSE IF AnyKeyword(name_lower, easy_keywords) THEN "easy"
        ELSE IF AnyKeyword(name_lower, race_keywords) THEN "race"
        ELSE IF LongDistance(distance_km) THEN "long"
        ELSE IF pace_min_km < 45 THEN "race"
        ELSE IF pace_min_km < 50 THEN "tempo"
        ELSE IF LongDistance(distance_km) THEN "long"
        ELSE IF pace_min_km > 65 THEN "easy"
        ELSE "steady"

\* avg_speed is absent, or a number of metres per minute; 1000.0 / avg_speed /
\* 60.0 with avg_speed in m/s is 1000 / (metres per minute) min/km
NoSpeed == [present |-> FALSE, value |-> 0]
Speed(v) == [present |-> TRUE, value |-> v]
avg_pace_min_per_km(activity_json) ==
    IF activity_json.avg_speed.present /\ activity_json.avg_speed.value # 0
          /\ activity_json.avg_speed.value > 0
    THEN 10000 \div activity_json.avg_speed.value
    ELSE 0

\* a start time is absent, or an ISO text: the wall-clock hour count written
\* in it and the UTC offset written after it ("Z" is offset 0)
NoTime == [present |-> FALSE, wall |-> 0, offset |-> 0]
Iso(wall, offset) == [present |-> TRUE, wall |-> wall, offset |-> offset]
\* datetime.fromisoformat(text.replace("Z", "+00:00")).astimezone(timezone.utc)
ToUtc(timestamp) == timestamp.wall - timestamp.offset

\* timedelta(days=7), in hours
WEEK == 168

\* the window is open at its lower end
InWeek_LowerOpen(week_ago, run_date, current_dt) ==
    week_ago < run_date /\ run_date < current_dt
\* the window is closed at its upper end
InWeek_UpperClosed(week_ago, run_date, current_dt) ==
    week_ago <= run_date /\ run_date <= current_dt

\* if week_ago <= run_date < current_dt
InWeek(week_ago, run_date, current_dt) ==
    week_ago <= run_date /\ run_date < current_dt

RECURSIVE SumSeq(_)
SumSeq(s) == IF s = <<>> THEN 0 ELSE SumSeq(Front(s)) + Last(s)

\* the loop adds the distance of every run that has a start time inside the
\* window; the value is in metres
get_weekly_mileage(runs_history, current_date) ==
    LET current_dt == ToUtc(current_date)
        week_ago == current_dt - WEEK
        added(run) == IF ~run.start_time.present THEN 0
                      ELSE IF InWeek(week_ago, ToUtc(run.start_time), current_dt)
                           THEN run.distance_m
                           ELSE 0
    IN  SumSeq([i \in 1..Len(runs_history) |-> added(runs_history[i])])

\* statistics.stdev of at least two paces given in tenths, rounded to the
\* nearest hundredth: the square root of (n * sum(x^2) - sum(x)^2) / (n * (n - 1))
stdev(data) ==
    LET n == Len(data)
        s1 == SumSeq(data)
        s2 == SumSeq([i \in 1..n |-> data[i] * data[i]])
        num == 100 * (n * s2 - s1 * s1)
        den == n * (n - 1)
        top == 10 * (CHOOSE x \in {data[i] : i \in 1..n} : \A i \in 1..n : data[i] <= x)
    IN  CHOOSE r \in 0..top :
            /\ (2 * r - 1) * (2 * r - 1) * den <= 4 * num
            /\ 4 * num < (2 * r + 1) * (2 * r + 1) * den

\* the runs listed after the current one, at most `window` of them
history_slice(runs_history, current_run_index, window) ==
    PySlice(runs_history, current_run_index + 1, current_run_index + 1 + window)

\* value in hundredths of a minute per kilometre
get_pace_consistency(runs_history, current_run_index, window) ==
    LET slice == history_slice(runs_history, current_run_index, window)
        paces == [i \in 1..Len(slice) |-> avg_pace_min_per_km(slice[i])]
        recent_paces == SelectSeq(paces, LAMBDA p : p > 0)
    IN  IF Len(recent_paces) < 2 THEN 0 ELSE stdev(recent_paces)

\* the hour of the timestamp after conversion to UTC
HourOf(timestamp) == ToUtc(timestamp) % 24
get_time_of_day(timestamp) ==
    LET hour == HourOf(timestamp)
    IN  IF 5 <= hour /\ hour < 12 THEN "Morning"
        ELSE IF 12 <= hour /\ hour < 17 THEN "Afternoon"
        ELSE IF 17 <= hour /\ hour < 21 THEN "Evening"
        ELSE "Night"

\* a temperature is math.nan or a number of degrees
NaN == [nan |-> TRUE, degrees |-> 0]
Degrees(d) == [nan |-> FALSE, degrees |-> d]

\* TEMP_BINS, in the order the dict lists its keys
TEMP_BINS ==
    << [name |-> "Very Cold", lower |-> -100, upper |-> 0],
       [name |-> "Cold", lower |-> 0, upper |-> 10],
       [name |-> "Mild", lower |-> 10, upper |-> 20],
       [name |-> "Warm", lower |-> 20, upper |-> 30],
       [name |-> "Hot", lower |-> 30, upper |-> 100] >>

\* a bin closed at its upper end instead of its lower end
TempInBin_UpperClosed(bin, temp_celsius) ==
    bin.lower < temp_celsius /\ temp_celsius <= bin.upper

\* if lower <= temp_celsius < upper
TempInBin(bin, temp_celsius) ==
    bin.lower <= temp_celsius /\ temp_celsius < bin.upper

get_temp_bin(temp_celsius) ==
    IF temp_celsius.nan THEN "Unknown"
    ELSE LET hits == {i \in 1..Len(TEMP_BINS) : TempInBin(TEMP_BINS[i], temp_celsius.degrees)}
         IN  IF hits # {}
             THEN TEMP_BINS[CHOOSE i \in hits : \A j \in hits : i <= j].name
             ELSE "Unknown"

get_run_length_bin(distance_m) ==
    IF distance_m < 5000 THEN "Short"
    ELSE IF distance_m < 10000 THEN "Medium"
    ELSE IF distance_m < 15000 THEN "Long"
    ELSE "Very Long"

\* energy and valence set by the run type, (0.6, 0.5) for any other type
run_type_targets(run_type) ==
    IF run_type = "interval" THEN [energy |-> 85, valence |-> 70]
    ELSE IF run_type = "tempo" THEN [energy |-> 75, valence |-> 65]
    ELSE IF run_type = "easy" THEN [energy |-> 40, valence |-> 60]
    ELSE IF run_type = "race" THEN [energy |-> 90, valence |-> 80]
    ELSE IF run_type = "long" THEN [energy |-> 55, valence |-> 60]
    ELSE [energy |-> 60, valence |-> 50]

\* the temperature and time-of-day steps without their floors and ceilings
adjust_valence_Unclamped(target_valence, temp_bin, time_of_day) ==
    LET by_temp == IF temp_bin \in {"Very Cold", "Cold"} THEN target_valence - 15
                   ELSE IF temp_bin \in {"Warm", "Hot"} THEN target_valence + 15
                   ELSE target_valence
    IN  IF time_of_day = "Morning" THEN by_temp + 10 ELSE by_temp

\* the time-of-day step taken before the temperature step
adjust_valence_MorningFirst(target_valence, temp_bin, time_of_day) ==
    LET by_time == IF time_of_day = "Morning" THEN Min(80, target_valence + 10)
                   ELSE target_valence
    IN  IF temp_bin \in {"Very Cold", "Cold"} THEN Max(20, by_time - 15)
        ELSE IF temp_bin \in {"Warm", "Hot"} THEN Min(90, by_time + 15)
        ELSE by_time

\* valence after the temperature step and then the time-of-day step
adjust_valence(target_valence, temp_bin, time_of_day) ==
    LET by_temp == IF temp_bin \in {"Very Cold", "Cold"} THEN Max(20, target_valence - 15)
                   ELSE IF temp_bin \in {"Warm", "Hot"} THEN Min(90, target_valence + 15)
                   ELSE target_valence
    IN  IF time_of_day = "Morning" THEN Min(80, by_temp + 10) ELSE by_temp

\* energy after the time-of-day step; Morning takes the first branch
adjust_energy(target_energy, time_of_day) ==
    IF time_of_day = "Night" THEN Max(30, target_energy - 15) ELSE target_energy

\* energy and valence are in hundredths, which round(x, 2) leaves as they are
calculate_music_targets(features) ==
    LET base == run_type_targets(features.run_type)
    IN  [target_tempo |-> features.target_bpm,
         target_energy |-> adjust_energy(base.energy, features.time_of_day),
         target_valence |-> adjust_valence(base.valence, features.temp_bin,
                                           features.time_of_day)]

\* round(metres / 1000, 2) and round(metres / 1000, 1), in metres
round_km_2(metres) == ((metres + 5) \div 10) * 10
round_km_1(metres) == ((metres + 50) \div 100) * 100

\* the feature dict feature_engineer_runs builds for the run at position idx
\* (0-based) of runs_with_weather; no Strava record is matched, so
\* elevation_gain is the default 0.0
engineer_run(runs_with_weather, idx) ==
    LET run == runs_with_weather[idx + 1]
        pace_min_km == avg_pace_min_per_km(run)
        distance_km == run.distance_m
        temp_c == run.weather
        pace_consistency == get_pace_consistency(runs_with_weather, idx, 5)
        weekly_mileage == get_weekly_mileage(runs_with_weather, run.start_time)
        target_bpm == map_pace_to_bpm(pace_min_km)
        time_of_day == get_time_of_day(run.start_time)
        temp_bin == get_temp_bin(temp_c)
        run_length_bin == get_run_length_bin(run.distance_m)
        run_type == detect_run_type(run.name, pace_min_km, distance_km)
        music_targets == calculate_music_targets(
                             [target_bpm |-> target_bpm, run_type |-> run_type,
                              temp_bin |-> temp_bin, time_of_day |-> time_of_day])
    IN  [run_id |-> run.id,
         name |-> run.name,
         start_time_utc |-> run.start_time,
         distance_km |-> round_km_2(distance_km),
         avg_pace_min_km |-> pace_min_km,
         elevation_gain_m |-> 0,
         temp_c |-> temp_c,
         temp_bin |-> temp_bin,
         time_of_day |-> time_of_day,
         run_length_bin |-> run_length_bin,
         run_type |-> run_type,
         pace_consistency |-> pace_consistency,
         weekly_mileage_km |-> round_km_1(weekly_mileage),
         target_bpm |-> target_bpm,
         target_tempo |-> music_targets.target_tempo,
         target_energy |-> music_targets.target_energy,
         target_valence |-> music_targets.target_valence]

---------------------------------------------------------------------------
(* train_music_model.predict_music_features.  A prediction of a regressor   *)
(* is a number of thousandths; a returned value is a number of hundredths.  *)

\* np.clip(pred, lo, hi)
np_clip(pred, lo, hi) == IF pred < lo THEN lo ELSE IF pred > hi THEN hi ELSE pred

\* round(float(pred), 2) of a non-negative number of thousandths: the nearest
\* hundredth, a tie going to the even one
round_2(pred) ==
    LET below == pred \div 10
        rest == pred % 10
    IN  IF rest < 5 THEN below
        ELSE IF rest > 5 THEN below + 1
        ELSE IF below % 2 = 0 THEN below ELSE below + 1

\* the loop over TARGET_FEATURES: tempo is clipped to 100..200, energy and
\* valence to 0..1, and each is rounded to 2 decimals
predict_music_features(predicted) ==
    [target_tempo |-> round_2(np_clip(predicted.target_tempo, 100000, 200000)),
     target_energy |-> round_2(np_clip(predicted.target_energy, 0, 1000)),
     target_valence |-> round_2(np_clip(predicted.target_valence, 0, 1000))]

---------------------------------------------------------------------------
(* ml_recommender.analyze_recent_runs.  The feature file is the output of   *)
(* feature_engineer_runs; suggested paces, pace ranges and mean paces are   *)
(* in thousandths of a minute per kilometre, the weekly load in metres.     *)

Null == [null |-> TRUE, value |-> 0]
Some(v) == [null |-> FALSE, value |-> v]

\* a suggestion that is not nudged for tempo and interval runs
progression_Unchanged(avg_pace, run_type) == avg_pace

\* avg_pace - 0.05 if run_type in ["tempo", "interval"] else avg_pace
progression(avg_pace, run_type) ==
    IF run_type \in {"tempo", "interval"} THEN avg_pace - 50 ELSE avg_pace

\* sum(paces) / len(paces) of paces given in tenths
mean_pace(paces) == (100 * SumSeq(paces)) \div Len(paces)

\* timedelta(days=30), in hours
MONTH == 720

\* ml_features exists tells whether ML_FEATURES_PATH exists, runs is the list
\* in it, now is datetime.now(timezone.utc) in hours
analyze_recent_runs(ml_features, run_type, now) ==
    IF ~ml_features.exists
    THEN [suggested_pace |-> Null, pace_range |-> Null, fatigue_level |-> "unknown",
          weekly_load |-> 0, recent_runs_count |-> 0, pace_consistency |-> Null,
          avg_pace_last_30d |-> Null]
    ELSE
    LET runs == ml_features.runs
        recent_runs == SelectSeq(runs, LAMBDA r : ToUtc(r.start_time_utc) >= now - MONTH)
        weekly_runs == SelectSeq(runs, LAMBDA r : ToUtc(r.start_time_utc) >= now - WEEK)
        weekly_distance == SumSeq([i \in 1..Len(weekly_runs) |-> weekly_runs[i].distance_km])
        of_type == SelectSeq(recent_runs, LAMBDA r : r.run_type = run_type)
        type_runs == IF of_type = <<>> THEN recent_runs ELSE of_type
        with_pace == SelectSeq(type_runs, LAMBDA r : r.avg_pace_min_km > 0)
        paces == [i \in 1..Len(with_pace) |-> with_pace[i].avg_pace_min_km]
        suggested == IF paces # <<>> THEN progression(mean_pace(paces), run_type) ELSE 6000
        pace_range == IF paces # <<>> THEN <<suggested - 150, suggested + 150>>
                      ELSE <<5500, 6500>>
        fatigue_level == IF weekly_distance > 60000 THEN "high_load"
                         ELSE IF weekly_distance > 40000 THEN "moderate"
                         ELSE IF weekly_distance < 15000 THEN "fresh"
                         ELSE "normal"
        consistency == IF Len(paces) >= 3 THEN stdev(paces) ELSE 50
    IN  IF recent_runs = <<>>
        THEN [suggested_pace |-> Null, pace_range |-> Null, fatigue_level |-> "fresh",
              weekly_load |-> 0, recent_runs_count |-> 0, pace_consistency |-> Null,
              avg_pace_last_30d |-> Null]
        ELSE [suggested_pace |-> Some(suggested), pace_range |-> Some(pace_range),
              fatigue_level |-> fatigue_level, weekly_load |-> weekly_distance,
              recent_runs_count |-> Len(recent_runs),
              pace_consistency |-> Some(consistency),
              avg_pace_last_30d |-> IF paces # <<>> THEN Some(mean_pace(paces)) ELSE Null]

---------------------------------------------------------------------------
(* recommender: the pipeline over the recommendations endpoint.  The name   *)
(* of a keyword argument is kept as a prefix and the rest of the name, so   *)
(* that k.startswith("seed_") is a test the model makes; a comma-joined     *)
(* seed value is kept as the list of the names joined.                      *)

Key(prefix, rest) == [prefix |-> prefix, rest |-> rest]
Param(key, value) == [key |-> key, value |-> value]

target_tempo_key == Key("target_", "tempo")
target_energy_key == Key("target_", "energy")
limit_key == Key("", "limit")
seed_genres_key == Key("seed_", "genres")
seed_artists_key == Key("seed_", "artists")

startswith_seed(k) == k.prefix = "seed_"

\* any(k.startswith("seed_") for k in kwargs.keys())
has_seed(kwargs) == \E i \in 1..Len(kwargs) : startswith_seed(kwargs[i].key)

\* recommender.TEMPO_MAP[run_intent].copy(), then audio_targets['limit'] = 30
recommender_audio_targets(intent) ==
    LET target == CASE intent = "slow" -> [target_tempo |-> 120, target_energy |-> 40]
                    [] intent = "steady" -> [target_tempo |-> 140, target_energy |-> 60]
                    [] intent = "fast" -> [target_tempo |-> 160, target_energy |-> 80]
    IN  << Param(target_tempo_key, target.target_tempo),
           Param(target_energy_key, target.target_energy),
           Param(limit_key, RECOMMENDATION_LIMIT) >>

preferred_by_intent(intent) ==
    CASE intent = "slow" -> <<"acoustic", "ambient", "chill">>
      [] intent = "steady" -> <<"indie", "pop", "folk">>
      [] intent = "fast" -> <<"edm", "workout", "dance">>
      [] OTHER -> <<"pop", "indie">>

\* chosen = [g for g in preferred_by_intent if g in genres][:2]
chosen_genres(intent, genres) ==
    PySlice(SelectSeq(preferred_by_intent(intent),
                      LAMBDA g : \E i \in 1..Len(genres) : genres[i] = g), 0, 2)

\* the order in which the top-artist time ranges are asked
TIME_RANGES == <<"medium_term", "long_term", "short_term">>

\* seed_artists = top_artists[:3]
seed_artists(top_artists) == PySlice(top_artists, 0, 3)

\* the last resort when no time range has artists: two of the available
\* genres, the only one, or the hardcoded pair
FALLBACK_GENRES == <<"pop", "rock">>

last_resort_genres(genres) ==
    IF Len(genres) >= 2 THEN PySlice(genres, 0, 2)
    ELSE IF genres # <<>> THEN <<genres[1]>>
    ELSE FALLBACK_GENRES

\* spotify_client.get_available_genre_seeds and get_user_top_artists: the
\* list of a 200 answer, [] for any other status
get_available_genre_seeds(response) ==
    IF response.status # HTTP_OK THEN <<>> ELSE response.items

get_user_top_artists(response) ==
    IF response.status # HTTP_OK THEN <<>> ELSE response.items

\* spotify_client.get_recommendations: ValueError without a seed parameter
\* (no request is sent), RuntimeError for a non-200 answer, else the tracks
get_recommendations(kwargs, response) ==
    IF ~has_seed(kwargs) THEN [raised |-> "ValueError", sent |-> FALSE, tracks |-> <<>>]
    ELSE IF response.status # HTTP_OK
    THEN [raised |-> "RuntimeError", sent |-> TRUE, tracks |-> <<>>]
    ELSE [raised |-> "", sent |-> TRUE, tracks |-> response.items]

fallback_targets_NoSeed(targets) ==
    << Param(target_tempo_key, targets[1].value),
       Param(target_energy_key, targets[2].value),
       Param(limit_key, RECOMMENDATION_LIMIT) >>

\* the parameters of the second call, made when the first one raised
fallback_targets(targets) ==
    << Param(target_tempo_key, targets[1].value),
       Param(target_energy_key, targets[2].value),
       Param(seed_genres_key, FALLBACK_GENRES),
       Param(limit_key, RECOMMENDATION_LIMIT) >>

---------------------------------------------------------------------------
(* ml_recommender.recommend_and_create_playlist, steps 6 to 11, as a        *)
(* function of what goes into it: the run features, the answers of the      *)
(* search service, the outcome of random.shuffle and the predicted music    *)
(* features.  Every call succeeds.                                          *)

\* format_pace: minutes and seconds of a pace in tenths of a minute
format_pace(pace) == [minutes |-> pace \div 10, seconds |-> ((pace % 10) * 60) \div 10]

\* f"{run_type} | {pace_str}/km | {distance:.1f}km @ {tempo} BPM"
generate_playlist_title(run_features, music_features) ==
    [run_type |-> run_features.run_type,
     pace_str |-> format_pace(run_features.avg_pace_min_km),
     distance |-> run_features.distance_km,
     tempo |-> music_features.target_tempo]

playlist_desc(run_features, music_features) ==
    [run_type |-> run_features.run_type,
     predicted_tempo |-> music_features.target_tempo,
     predicted_energy |-> music_features.target_energy,
     weather |-> run_features.temp_c]

\* steps 8 and 9: the searches, the merge, the backup search, the shuffle and
\* the playlist structure
smart_selection(run_features, responses, k, rev) ==
    LET query_list == LimitQueries(get_search_queries_for_run(run_features))
        found == Flatten([i \in 1..Len(query_list) |-> search_tracks_by_query(responses[i])])
        merged == unique_tracks(found)
        backup == search_tracks_by_query(responses[Len(query_list) + 1])
        pool == IF NeedsBackup(merged) THEN unique_tracks(merged \o backup) ELSE merged
    IN  create_progressive_playlist(Shuffle(pool, k, rev), run_features.run_type,
                                    run_features.distance_km).result

\* a pipeline that sizes the playlist by the predicted tempo
smart_pipeline_TempoSized(run_features, responses, k, rev, music_features) ==
    LET selected == PySlice(smart_selection(run_features, responses, k, rev), 0,
                            music_features.target_tempo \div 10)
        track_uris == TrackUris(selected)
        title == generate_playlist_title(run_features, music_features)
    IN  [created |-> [name |-> title,
                      description |-> playlist_desc(run_features, music_features)],
         posts |-> add_tracks_to_playlist(track_uris, 0).posts,
         added |-> add_tracks_to_playlist(track_uris, 0).added,
         output_metadata |-> [run_features |-> run_features,
                              predicted_music_features |-> music_features,
                              title |-> title,
                              track_count |-> Len(track_uris)]]

smart_pipeline(run_features, responses, k, rev, music_features) ==
    LET selected == smart_selection(run_features, responses, k, rev)
        track_uris == TrackUris(selected)
        title == generate_playlist_title(run_features, music_features)
    IN  [created |-> [name |-> title,
                      description |-> playlist_desc(run_features, music_features)],
         posts |-> add_tracks_to_playlist(track_uris, 0).posts,
         added |-> add_tracks_to_playlist(track_uris, 0).added,
         output_metadata |-> [run_features |-> run_features,
                              predicted_music_features |-> music_features,
                              title |-> title,
                              track_count |-> Len(track_uris)]]

---------------------------------------------------------------------------
(* What the search service answers.  A script is the list of answers the    *)
(* service gives to the successive search calls of one run.                 *)

Found(items) == [status |-> HTTP_OK, items |-> items]
Refused == [status |-> 500, items |-> <<>>]
Mixed == <<Track(3, "a"), Track(0, "a"), Track(4, "a"), Track(3, "b"), Track(6, "a")>>

SearchScripts ==
    { <<Refused, Found(<<>>), Refused, Found(<<>>), Found(<<>>), Found(<<>>)>>,
      <<Found(Mixed), Refused, Found(<<Track(4, "b"), Track(9, "b")>>), Found(<<>>),
        Found(<<Track(3, "c")>>), Found(Block(20, 3, "d"))>>,
      <<Found(Block(1, 12, "a")), Found(Block(8, 12, "b")), Found(Mixed), Refused,
        Found(<<>>), Found(<<Track(19, "c"), Track(40, "c")>>)>>,
      <<Found(Block(1, 12, "a")), Found(Block(8, 12, "b")), Found(Mixed), Refused,
        Found(<<Track(20, "c")>>), Found(<<Track(41, "c")>>)>>,
      <<Found(Block(1, 20, "a")), Found(Block(15, 20, "b")), Found(Mixed),
        Found(Block(30, 10, "c")), Refused, Found(<<>>)>> }

PipelineVariants == {"filtered", "simple", "ml"}

\* the run of the smart pipeline: run type, pace, forecast temperature, distance
RunFeatureInputs ==
    [run_type : RunTypes, avg_pace_min_km : {45, 60, 70}, temp_c : {0, 15, 30},
     distance_km : {10, 12, 20}]

\* the defaults of run_features.get(...) in get_search_queries_for_run
DefaultRun == [run_type |-> "steady", avg_pace_min_km |-> 60, temp_c |-> 15, distance_km |-> 5]

\* latest_playlist.json as an earlier run left it
PreviousSnapshot == [playlist_id |-> 0, track_count |-> 0]

\* a pipeline that never asks the genre-seed, top-artist or recommendation endpoints
NoCollaborators == [genres |-> <<>>, top_artists |-> <<>>, recommendations |-> <<>>]

---------------------------------------------------------------------------
VARIABLES
    variant,          \* which pipeline runs
    run_intent,       \* alternative pipelines: sys.argv[1], validated
    run_features,     \* smart pipeline: the feature dict of the planned run
    search_script,    \* the search service's answers to this run's calls
    pc,               \* position of the pipeline
    outcome,          \* "running", "success", "failed" (reported, returned), "error" (raised, caught)
    queries,          \* the query list the search loop iterates over
    search_log,       \* calls made to the search collaborator: [query, kind, raised, items]
    all_tracks,
    filter_log,       \* calls of filter_tracks_by_audio_features: [tol, passed (the list returned)]
    filtered_tracks,
    selected_tracks,
    segments,         \* smart pipeline: value of create_progressive_playlist
    create_calls,     \* calls of sp.create_playlist
    add_calls,        \* calls of sp.add_tracks_to_playlist
    playlists,        \* the playlist service: the URIs of each created playlist
    latest_playlist,  \* content of latest_playlist.json
    snapshot_writes,  \* writes of latest_playlist.json
    collaborators,    \* recommendations pipeline: the answers of the genre-seed,
                      \* top-artist and recommendation endpoints to this run's calls
    seeds,            \* recommendations pipeline: the seed_ entries put into audio_targets
    api_log,          \* recommendations pipeline: the calls made to those endpoints, in order
    args,             \* pure-function checks: the arguments of the call
    ret               \* pure-function checks: the values returned so far

pipeVars == <<variant, run_intent, run_features, search_script, pc, outcome, queries,
              search_log, all_tracks, filter_log, filtered_tracks, selected_tracks,
              segments, create_calls, add_calls, playlists, latest_playlist,
              snapshot_writes, collaborators, seeds, api_log>>
recVars == <<collaborators, seeds, api_log>>
callVars == <<args, ret>>
vars == <<pipeVars, callVars>>

NoSegments == [progressive |-> FALSE, warmup |-> <<>>, main_section |-> <<>>,
               finish |-> <<>>, result |-> <<>>]

PipelineStart ==
    /\ outcome = "running"
    /\ queries = <<>>
    /\ search_log = <<>>
    /\ all_tracks = <<>>
    /\ filter_log = <<>>
    /\ filtered_tracks = <<>>
    /\ selected_tracks = <<>>
    /\ segments = NoSegments
    /\ create_calls = 0
    /\ add_calls = 0
    /\ playlists = <<>>
    /\ latest_playlist = PreviousSnapshot
    /\ snapshot_writes = 0
    /\ seeds = <<>>
    /\ api_log = <<>>

NoCall ==
    /\ args = <<>>
    /\ ret = <<>>

Init ==
    /\ variant \in PipelineVariants
    /\ run_intent \in (IF variant = "ml" THEN {"steady"} ELSE Intents)
    /\ run_features \in (IF variant = "ml" THEN RunFeatureInputs ELSE {DefaultRun})
    /\ search_script \in SearchScripts
    /\ collaborators = NoCollaborators
    /\ pc = "init"
    /\ PipelineStart
    /\ NoCall

audio_targets == TEMPO_MAP(run_intent)

\* an exception reaches the pipeline's except clause: printed, nothing else done
Caught ==
    /\ outcome' = "error"
    /\ pc' = "done"

\* Everything up to the search loop: sp = SpotifyClient() (and, in the smart
\* pipeline, load_ml_model and the prediction before it), then the query list.
\* Any of these can raise (SpotifyAuthError, FileNotFoundError).
InitClient ==
    /\ pc = "init"
    /\ \/ /\ queries' = IF variant = "ml"
                        THEN LimitQueries(get_search_queries_for_run(run_features))
                        ELSE SEARCH_QUERIES(run_intent)
          /\ pc' = "search"
          /\ UNCHANGED outcome
       \/ /\ Caught
          /\ UNCHANGED queries
    /\ UNCHANGED <<variant, run_intent, run_features, search_script, search_log, all_tracks,
                   filter_log, filtered_tracks, selected_tracks, segments, create_calls,
                   add_calls, playlists, latest_playlist, snapshot_writes, recVars, callVars>>

\* one iteration of: for query in queries: tracks = search(...); all_tracks.extend(tracks)
\* The request is answered (with the items, or refused: []) or raises (timeout).
Search ==
    /\ pc = "search"
    /\ Len(search_log) < Len(queries)
    /\ LET query == queries[Len(search_log) + 1]
           response == search_script[Len(search_log) + 1]
           tracks == search_tracks_by_query(response)
       IN  \/ /\ search_log' = Append(search_log, [query |-> query, kind |-> "regular",
                                                     raised |-> FALSE, items |-> tracks])
              /\ all_tracks' = all_tracks \o tracks
              /\ UNCHANGED <<pc, outcome>>
           \/ /\ search_log' = Append(search_log, [query |-> query, kind |-> "regular",
                                                     raised |-> TRUE, items |-> <<>>])
              /\ Caught
              /\ UNCHANGED all_tracks
    /\ UNCHANGED <<variant, run_intent, run_features, search_script, queries,
                   filter_log, filtered_tracks, selected_tracks, segments, create_calls,
                   add_calls, playlists, latest_playlist, snapshot_writes, recVars, callVars>>

\* after the loop: remove duplicates; the smart pipeline then tests the minimum
Dedup ==
    /\ pc = "search"
    /\ Len(search_log) = Len(queries)
    /\ all_tracks' = unique_tracks(all_tracks)
    /\ pc' = CASE variant = "filtered" -> "filter"
               [] variant = "simple" -> "select"
               [] variant = "ml" -> IF NeedsBackup(all_tracks') THEN "backup" ELSE "select"
    /\ UNCHANGED <<variant, run_intent, run_features, search_script, outcome, queries,
                   search_log, filter_log, filtered_tracks, selected_tracks, segments,
                   create_calls, add_calls, playlists, latest_playlist, snapshot_writes,
                   recVars, callVars>>

\* smart pipeline, len(all_tracks) < 20: one more search, extend, deduplicate again
Backup ==
    /\ pc = "backup"
    /\ LET response == search_script[Len(search_log) + 1]
           backup == search_tracks_by_query(response)
       IN  \/ /\ search_log' = Append(search_log, [query |-> backup_query, kind |-> "backup",
                                                     raised |-> FALSE, items |-> backup])
              /\ all_tracks' = unique_tracks(all_tracks \o backup)
              /\ pc' = "select"
              /\ UNCHANGED outcome
           \/ /\ search_log' = Append(search_log, [query |-> backup_query, kind |-> "backup",
                                                     raised |-> TRUE, items |-> <<>>])
              /\ Caught
              /\ UNCHANGED all_tracks
    /\ UNCHANGED <<variant, run_intent, run_features, search_script, queries,
                   filter_log, filtered_tracks, selected_tracks, segments, create_calls,
                   add_calls, playlists, latest_playlist, snapshot_writes, recVars, callVars>>

\* filtered pipeline, step 4: the strict filter, then the test len(filtered) < 15
FilterStrict ==
    /\ pc = "filter"
    /\ \/ \E status \in Statuses :
            LET audio_features == get_audio_features_for_tracks(TrackIds(all_tracks), status)
                filtered == filter_tracks_by_audio_features(
                                all_tracks, audio_targets, STRICT_TOLERANCE, audio_features)
            IN  /\ filtered_tracks' = filtered
                /\ filter_log' = Append(filter_log, [tol |-> STRICT_TOLERANCE,
                                                     passed |-> filtered])
                /\ pc' = IF NeedsRelaxing(filtered) THEN "relax" ELSE "select"
                /\ UNCHANGED outcome
       \/ /\ all_tracks # <<>>
          /\ Caught
          /\ UNCHANGED <<filtered_tracks, filter_log>>
    /\ UNCHANGED <<variant, run_intent, run_features, search_script, queries, search_log,
                   all_tracks, selected_tracks, segments, create_calls, add_calls,
                   playlists, latest_playlist, snapshot_writes, recVars, callVars>>

\* filtered pipeline: the relaxed filter replaces filtered_tracks
FilterRelaxed ==
    /\ pc = "relax"
    /\ \/ \E status \in Statuses :
            LET audio_features == get_audio_features_for_tracks(TrackIds(all_tracks), status)
                filtered == filter_tracks_by_audio_features(
                                all_tracks, audio_targets, RELAXED_TOLERANCE, audio_features)
            IN  /\ filtered_tracks' = filtered
                /\ filter_log' = Append(filter_log, [tol |-> RELAXED_TOLERANCE,
                                                     passed |-> filtered])
                /\ pc' = "select"
                /\ UNCHANGED outcome
       \/ /\ all_tracks # <<>>
          /\ Caught
          /\ UNCHANGED <<filtered_tracks, filter_log>>
    /\ UNCHANGED <<variant, run_intent, run_features, search_script, queries, search_log,
                   all_tracks, selected_tracks, segments, create_calls, add_calls,
                   playlists, latest_playlist, snapshot_writes, recVars, callVars>>

\* filtered pipeline: if not filtered_tracks: report and return; else sample up to 30
SelectFiltered ==
    /\ pc = "select"
    /\ variant = "filtered"
    /\ \/ /\ filtered_tracks = <<>>
          /\ outcome' = "failed"
          /\ pc' = "done"
          /\ UNCHANGED selected_tracks
       \/ /\ filtered_tracks # <<>>
          /\ \E k \in Shifts, rev \in BOOLEAN :
                selected_tracks' = random_sample(filtered_tracks, k, rev)
          /\ pc' = "create"
          /\ UNCHANGED outcome
    /\ UNCHANGED <<variant, run_intent, run_features, search_script, queries, search_log,
                   all_tracks, filter_log, filtered_tracks, segments, create_calls,
                   add_calls, playlists, latest_playlist, snapshot_writes, recVars, callVars>>

\* simple pipeline: random.sample(all_tracks, min(30, len(all_tracks))), no test
SelectSimple ==
    /\ pc = "select"
    /\ variant = "simple"
    /\ \E k \in Shifts, rev \in BOOLEAN :
          selected_tracks' = random_sample(all_tracks, k, rev)
    /\ pc' = "create"
    /\ UNCHANGED <<variant, run_intent, run_features, search_script, outcome, queries,
                   search_log, all_tracks, filter_log, filtered_tracks, segments,
                   create_calls, add_calls, playlists, latest_playlist, snapshot_writes,
                   recVars, callVars>>

\* smart pipeline, step 9: create_progressive_playlist shuffles all_tracks in place
SelectProgressive ==
    /\ pc = "select"
    /\ variant = "ml"
    /\ \E k \in Shifts, rev \in BOOLEAN :
          /\ all_tracks' = Shuffle(all_tracks, k, rev)
          /\ segments' = create_progressive_playlist(
                             all_tracks', run_features.run_type, run_features.distance_km)
          /\ selected_tracks' = segments'.result
    /\ pc' = "create"
    /\ UNCHANGED <<variant, run_intent, run_features, search_script, outcome, queries,
                   search_log, filter_log, filtered_tracks, create_calls, add_calls,
                   playlists, latest_playlist, snapshot_writes, recVars, callVars>>

\* playlist_id = sp.create_playlist(...): a new empty playlist, or it raises
CreatePlaylist ==
    /\ pc = "create"
    /\ create_calls' = create_calls + 1
    /\ \/ /\ playlists' = Append(playlists, <<>>)
          /\ pc' = "add"
          /\ UNCHANGED outcome
       \/ /\ Caught
          /\ UNCHANGED playlists
    /\ UNCHANGED <<variant, run_intent, run_features, search_script, queries, search_log,
                   all_tracks, filter_log, filtered_tracks, selected_tracks, segments,
                   add_calls, latest_playlist, snapshot_writes, recVars, callVars>>

\* sp.add_tracks_to_playlist(playlist_id, track_uris)
AddTracks ==
    /\ pc = "add"
    /\ add_calls' = add_calls + 1
    /\ \E failAt \in 0..Len(Batches(TrackUris(selected_tracks))) :
          LET r == add_tracks_to_playlist(TrackUris(selected_tracks), failAt)
              playlist_id == Len(playlists)
          IN  /\ playlists' = [playlists EXCEPT ![playlist_id] = @ \o r.added]
              /\ IF r.raised
                 THEN Caught
                 ELSE /\ pc' = "save"
                      /\ UNCHANGED outcome
    /\ UNCHANGED <<variant, run_intent, run_features, search_script, queries, search_log,
                   all_tracks, filter_log, filtered_tracks, selected_tracks, segments,
                   create_calls, latest_playlist, snapshot_writes, recVars, callVars>>

\* OUT_PLAYLIST_METADATA_PATH.write_text(json.dumps(output_metadata))
SaveMetadata ==
    /\ pc = "save"
    /\ latest_playlist' = [playlist_id |-> Len(playlists),
                           track_count |-> Len(TrackUris(selected_tracks))]
    /\ snapshot_writes' = snapshot_writes + 1
    /\ outcome' = "success"
    /\ pc' = "done"
    /\ UNCHANGED <<variant, run_intent, run_features, search_script, queries, search_log,
                   all_tracks, filter_log, filtered_tracks, selected_tracks, segments,
                   create_calls, add_calls, playlists, recVars, callVars>>

Next ==
    \/ InitClient
    \/ Search
    \/ Dedup
    \/ Backup
    \/ FilterStrict
    \/ FilterRelaxed
    \/ SelectFiltered
    \/ SelectSimple
    \/ SelectProgressive
    \/ CreatePlaylist
    \/ AddTracks
    \/ SaveMetadata

Spec == Init /\ [][Next]_vars

---------------------------------------------------------------------------
(* The recommendations pipeline (recommender.recommend_and_create_playlist) *)
(* shares the playlist steps with the others; what differs is where the     *)
(* tracks come from.                                                        *)

Artists == <<71, 72, 73, 74, 75>>

\* what the three endpoints answer to this run's calls: the genre catalogue,
\* the top artists of each time range, the first and the second
\* recommendation request
GenreAnswers ==
    { Refused, Found(<<>>), Found(<<"rock">>), Found(<<"jazz", "rock", "pop">>),
      Found(<<"dance", "chill", "indie", "edm", "ambient", "folk">>) }
ArtistAnswers == { Refused, Found(<<>>), Found(Artists) }
RecommendationAnswers == { Refused, Found(<<>>), Found(Block(1, RECOMMENDATION_LIMIT, "r")) }

Collaborators ==
    [genres : GenreAnswers,
     top_artists : [1..Len(TIME_RANGES) -> ArtistAnswers],
     recommendations : [1..2 -> RecommendationAnswers]]

InitRecommender ==
    /\ variant = "recommendations"
    /\ run_intent \in Intents
    /\ run_features = DefaultRun
    /\ search_script = <<>>
    /\ collaborators \in Collaborators
    /\ pc = "start"
    /\ PipelineStart
    /\ NoCall

\* error: the exception the call raised, "" when it returned
ApiCall(endpoint, params, error, items) ==
    [endpoint |-> endpoint, params |-> params, raised |-> error # "", error |-> error,
     items |-> items]

\* the genres the run got from get_available_genre_seeds
genres == api_log[1].items

TopArtistCalls == SelectSeq(api_log, LAMBDA c : c.endpoint = "top_artists")

\* the keyword arguments of the first recommendation call
seeded_targets == recommender_audio_targets(run_intent) \o seeds

\* sp = SpotifyClient(): the token refresh or the profile request can raise
StartClient ==
    /\ pc = "start"
    /\ \/ /\ pc' = "genres"
          /\ UNCHANGED outcome
       \/ Caught
    /\ UNCHANGED <<variant, run_intent, run_features, search_script, queries, search_log,
                   all_tracks, filter_log, filtered_tracks, selected_tracks, segments,
                   create_calls, add_calls, playlists, latest_playlist, snapshot_writes,
                   recVars, callVars>>

\* step 4, first part: audio_targets has no seed yet, so the genre catalogue
\* is fetched and the intent's preferred genres that it lists are chosen
GetGenreSeeds ==
    /\ pc = "genres"
    /\ ~has_seed(recommender_audio_targets(run_intent))
    /\ \/ LET answer == get_available_genre_seeds(collaborators.genres)
              chosen == chosen_genres(run_intent, answer)
          IN  /\ api_log' = Append(api_log, ApiCall("genre_seeds", <<>>, "", answer))
              /\ IF chosen # <<>>
                 THEN /\ seeds' = <<Param(seed_genres_key, chosen)>>
                      /\ pc' = "recommend"
                 ELSE /\ pc' = "artists"
                      /\ UNCHANGED seeds
              /\ UNCHANGED outcome
       \/ /\ api_log' = Append(api_log, ApiCall("genre_seeds", <<>>, "RequestException", <<>>))
          /\ Caught
          /\ UNCHANGED seeds
    /\ UNCHANGED <<variant, run_intent, run_features, search_script, queries, search_log,
                   all_tracks, filter_log, filtered_tracks, selected_tracks, segments,
                   create_calls, add_calls, playlists, latest_playlist, snapshot_writes,
                   collaborators, callVars>>

\* one iteration of: for time_range in [...]: top_artists = ...; if top_artists: break
\* and, when the loop is left, the seed it leads to
GetTopArtists ==
    /\ pc = "artists"
    /\ Len(TopArtistCalls) < Len(TIME_RANGES)
    /\ LET position == Len(TopArtistCalls) + 1
           time_range == TIME_RANGES[position]
           top_artists == get_user_top_artists(collaborators.top_artists[position])
       IN  \/ /\ api_log' = Append(api_log, ApiCall("top_artists", time_range, "",
                                                     top_artists))
              /\ IF top_artists # <<>>
                 THEN /\ seeds' = <<Param(seed_artists_key, seed_artists(top_artists))>>
                      /\ pc' = "recommend"
                 ELSE IF position = Len(TIME_RANGES)
                 THEN /\ seeds' = <<Param(seed_genres_key, last_resort_genres(genres))>>
                      /\ pc' = "recommend"
                 ELSE UNCHANGED <<seeds, pc>>
              /\ UNCHANGED outcome
           \/ /\ api_log' = Append(api_log, ApiCall("top_artists", time_range, "RequestException", <<>>))
              /\ Caught
              /\ UNCHANGED seeds
    /\ UNCHANGED <<variant, run_intent, run_features, search_script, queries, search_log,
                   all_tracks, filter_log, filtered_tracks, selected_tracks, segments,
                   create_calls, add_calls, playlists, latest_playlist, snapshot_writes,
                   collaborators, callVars>>

\* if not recommended_tracks: warn and return; else their URIs go to the playlist
UseRecommendations(recommended_tracks) ==
    IF recommended_tracks = <<>>
    THEN /\ outcome' = "failed"
         /\ pc' = "done"
         /\ UNCHANGED selected_tracks
    ELSE /\ selected_tracks' = recommended_tracks
         /\ pc' = "create"
         /\ UNCHANGED outcome

\* step 5: recommended_tracks = sp.get_recommendations(**audio_targets); an
\* exception leads to the except clause that calls again
Recommend ==
    /\ pc = "recommend"
    /\ LET r == get_recommendations(seeded_targets, collaborators.recommendations[1])
       IN  /\ api_log' = Append(api_log, ApiCall("recommendations", seeded_targets,
                                                  r.raised, r.tracks))
           /\ IF r.raised # ""
              THEN /\ pc' = "fallback"
                   /\ UNCHANGED <<outcome, selected_tracks>>
              ELSE UseRecommendations(r.tracks)
    /\ UNCHANGED <<variant, run_intent, run_features, search_script, queries, search_log,
                   all_tracks, filter_log, filtered_tracks, segments, create_calls,
                   add_calls, playlists, latest_playlist, snapshot_writes, collaborators,
                   seeds, callVars>>

\* the except clause: sp.get_recommendations(**fallback_targets); if this
\* call raises too, the exception reaches the pipeline's except clause
RecommendFallback ==
    /\ pc = "fallback"
    /\ LET kwargs == fallback_targets(seeded_targets)
           r == get_recommendations(kwargs, collaborators.recommendations[2])
       IN  /\ api_log' = Append(api_log, ApiCall("recommendations", kwargs,
                                                  r.raised, r.tracks))
           /\ IF r.raised # ""
              THEN /\ Caught
                   /\ UNCHANGED selected_tracks
              ELSE UseRecommendations(r.tracks)
    /\ UNCHANGED <<variant, run_intent, run_features, search_script, queries, search_log,
                   all_tracks, filter_log, filtered_tracks, segments, create_calls,
                   add_calls, playlists, latest_playlist, snapshot_writes, collaborators,
                   seeds, callVars>>

NextRecommender ==
    \/ StartClient
    \/ GetGenreSeeds
    \/ GetTopArtists
    \/ Recommend
    \/ RecommendFallback
    \/ CreatePlaylist
    \/ AddTracks
    \/ SaveMetadata

SpecRecommender == InitRecommender /\ [][NextRecommender]_vars

\* every pipeline variant
InitAnyPipeline == Init \/ InitRecommender

NextAnyPipeline ==
    \/ InitClient
    \/ Search
    \/ Dedup
    \/ Backup
    \/ FilterStrict
    \/ FilterRelaxed
    \/ SelectFiltered
    \/ SelectSimple
    \/ SelectProgressive
    \/ StartClient
    \/ GetGenreSeeds
    \/ GetTopArtists
    \/ Recommend
    \/ RecommendFallback
    \/ CreatePlaylist
    \/ AddTracks
    \/ SaveMetadata

SpecAnyPipeline == InitAnyPipeline /\ [][NextAnyPipeline]_vars

---------------------------------------------------------------------------
(* The selection functions on their own: one call with given arguments.    *)
(* No pipeline runs; its variables stay as they start.                     *)

NoPipeline ==
    /\ variant = "none"
    /\ run_intent = "steady"
    /\ run_features = DefaultRun
    /\ search_script = <<>>
    /\ collaborators = NoCollaborators
    /\ pc = "call"
    /\ PipelineStart

\* candidate lists: short ones, and ones around the 100 ids of one
\* audio-features request; with and without a leading track that has no id
FilterLens ==
    0..MaxSmallLen \cup (AUDIO_FEATURES_MAX_IDS - MaxSmallLen)..(AUDIO_FEATURES_MAX_IDS + MaxSmallLen)
FilterCandidates ==
    {Block(1, n, "a") : n \in FilterLens} \cup {<<Track(0, "a")>> \o Block(1, n, "a") : n \in FilterLens}

InitFilter ==
    /\ NoPipeline
    /\ args \in [tracks : FilterCandidates, target : {TEMPO_MAP(i) : i \in Intents},
                 tol : {STRICT_TOLERANCE, RELAXED_TOLERANCE, DEFAULT_TOLERANCE}]
    /\ ret = <<>>

\* filter_tracks_by_audio_features(sp, tracks, ...): the audio-features request
\* comes back with some status, or raises
CallFilter ==
    /\ pc = "call"
    /\ \/ \E status \in Statuses :
            LET audio_features == get_audio_features_for_tracks(TrackIds(args.tracks), status)
            IN  /\ ret' = <<[status |-> status,
                             value |-> filter_tracks_by_audio_features(
                                           args.tracks, args.target, args.tol, audio_features)]>>
                /\ pc' = "returned"
       \/ /\ args.tracks # <<>>
          /\ pc' = "raised"
          /\ UNCHANGED ret
    /\ UNCHANGED <<variant, run_intent, run_features, search_script, outcome, queries,
                   search_log, all_tracks, filter_log, filtered_tracks, selected_tracks,
                   segments, create_calls, add_calls, playlists, latest_playlist,
                   snapshot_writes, recVars, args>>

SpecFilter == InitFilter /\ [][CallFilter]_vars

\* lists of distinct tracks: short ones, and ones around the 30-track cap
ProgressiveLens == 0..MaxSmallLen \cup (PLAYLIST_SIZE - 2)..(PLAYLIST_SIZE + 2)
\* create_progressive_playlist is executed this many times on the same arguments
Executions == 2

InitProgressive ==
    /\ NoPipeline
    /\ args \in [tracks : {Block(1, n, "a") : n \in ProgressiveLens}, run_type : RunTypes,
                 distance_km : {10, 12, 20}]
    /\ ret = <<>>

\* one execution of create_progressive_playlist(tracks, run_type, distance_km)
CallProgressive ==
    /\ pc = "call"
    /\ Len(ret) < Executions
    /\ \E k \in Shifts, rev \in BOOLEAN :
          ret' = Append(ret, create_progressive_playlist(
                                 Shuffle(args.tracks, k, rev), args.run_type, args.distance_km))
    /\ UNCHANGED <<pipeVars, args>>

SpecProgressive == InitProgressive /\ [][CallProgressive]_vars

\* paces from 0 (no speed recorded) to MaxPace tenths of a minute per kilometre
MaxPace == 100
Paces == 0..MaxPace

InitPace ==
    /\ NoPipeline
    /\ args \in [pace_min_km : Paces, other_pace : Paces]
    /\ ret = <<>>

\* map_pace_to_bpm called on each of the two paces
CallPace ==
    /\ pc = "call"
    /\ ret = <<>>
    /\ ret' = <<map_pace_to_bpm(args.pace_min_km), map_pace_to_bpm(args.other_pace)>>
    /\ UNCHANGED <<pipeVars, args>>

SpecPace == InitPace /\ [][CallPace]_vars

\* run names
MorningRun == <<"M", "o", "r", "n", "i", "n", "g", " ", "R", "u", "n">>
LunchRun == <<"L", "u", "n", "c", "h", " ", "R", "u", "n">>
EveningRun == <<"E", "v", "e", "n", "i", "n", "g", " ", "R", "u", "n">>
EasyJog == <<"E", "a", "s", "y", " ", "j", "o", "g">>
ParkRun == <<"P", "a", "r", "k", " ", "R", "u", "n">>

\* the runs of run_weather.json: the records the history lists are made of.
\* LunchRun started exactly seven days before MorningRun; EveningRun and
\* EasyJog carry a UTC offset; LunchRun has no speed and EveningRun speed 0.
EngineerRuns ==
    { [id |-> 1, name |-> MorningRun, avg_speed |-> Speed(200), distance_m |-> 5000,
       start_time |-> Iso(1207, 0), weather |-> Degrees(15)],
      [id |-> 2, name |-> LunchRun, avg_speed |-> NoSpeed, distance_m |-> 8000,
       start_time |-> Iso(1039, 0), weather |-> NaN],
      [id |-> 3, name |-> EveningRun, avg_speed |-> Speed(0), distance_m |-> 3000,
       start_time |-> Iso(1194, 2), weather |-> Degrees(-5)],
      [id |-> 4, name |-> EasyJog, avg_speed |-> Speed(125), distance_m |-> 16000,
       start_time |-> Iso(1110, -5), weather |-> Degrees(30)],
      [id |-> 5, name |-> ParkRun, avg_speed |-> Speed(250), distance_m |-> 10000,
       start_time |-> Iso(1230, 0), weather |-> Degrees(22)] }

\* a history file lists at most this many runs
MaxHistory == 3
\* the lists of distinct runs, in any order
Histories ==
    UNION { {h \in [1..n -> EngineerRuns] : \A i, j \in 1..n : i # j => h[i] # h[j]} :
            n \in 0..MaxHistory }

\* run_weather.json exists and holds a list of runs; strava_runs.json is absent
InitEngineer ==
    /\ NoPipeline
    /\ args \in [runs_with_weather : Histories]
    /\ ret = <<>>

\* one pass of the loop of feature_engineer_runs: the features of the next run
\* are appended to featured_runs
EngineerRun ==
    /\ pc = "call"
    /\ Len(ret) < Len(args.runs_with_weather)
    /\ ret' = Append(ret, engineer_run(args.runs_with_weather, Len(ret)))
    /\ UNCHANGED <<pipeVars, args>>

\* the loop is over: featured_runs is written to the output file and returned
SaveFeatures ==
    /\ pc = "call"
    /\ Len(ret) = Len(args.runs_with_weather)
    /\ pc' = "returned"
    /\ UNCHANGED <<variant, run_intent, run_features, search_script, outcome, queries,
                   search_log, all_tracks, filter_log, filtered_tracks, selected_tracks,
                   segments, create_calls, add_calls, playlists, latest_playlist,
                   snapshot_writes, recVars, args, ret>>

NextEngineer == EngineerRun \/ SaveFeatures
SpecEngineer == InitEngineer /\ [][NextEngineer]_vars

\* run names that hold keywords, some of them inside a longer word
TempoIntervals == <<"T", "e", "m", "p", "o", " ", "I", "n", "t", "e", "r", "v", "a", "l", "s">>
EasyTempo == <<"E", "a", "s", "y", " ", "T", "e", "m", "p", "o">>
RaceRecovery == <<"R", "a", "c", "e", " ", "R", "e", "c", "o", "v", "e", "r", "y">>
FiveKPR == <<"5", "k", " ", "P", "R">>
ChristmasLoop == <<"C", "h", "r", "i", "s", "t", "m", "a", "s", " ", "L", "o", "o", "p">>
SpringLoop == <<"S", "p", "r", "i", "n", "g", " ", "L", "o", "o", "p">>
RunNames == {MorningRun, LunchRun, ParkRun, EasyJog, TempoIntervals, EasyTempo, RaceRecovery,
             FiveKPR, ChristmasLoop, SpringLoop}
\* distances in metres, around the 15 km of a long run
RunDistances == {0, 5000, 14999, 15000, 15001, 21000}

InitRunType ==
    /\ NoPipeline
    /\ args \in [run_name : RunNames, pace_min_km : Paces, distance_km : RunDistances]
    /\ ret = <<>>

CallRunType ==
    /\ pc = "call"
    /\ ret = <<>>
    /\ ret' = <<detect_run_type(args.run_name, args.pace_min_km, args.distance_km)>>
    /\ UNCHANGED <<pipeVars, args>>

SpecRunType == InitRunType /\ [][CallRunType]_vars

\* the instant the weekly window ends at, written with offset 0 and with +02:00
CurrentDates == {Iso(1207, 0), Iso(1209, 2)}
\* start times of history entries: none; 169 hours before the current date;
\* exactly 168 hours before it, written with offset 0 and with +02:00; one
\* hour before it; the same instant; one hour after it
StartTimes ==
    {NoTime, Iso(1038, 0), Iso(1039, 0), Iso(1041, 2), Iso(1206, 0), Iso(1207, 0), Iso(1208, 0)}
MileageRuns == [start_time : StartTimes, distance_m : {4000, 7000}]
MileageHistories == UNION {[1..n -> MileageRuns] : n \in 0..MaxHistory}

InitMileage ==
    /\ NoPipeline
    /\ args \in [runs_history : MileageHistories, current_date : CurrentDates]
    /\ ret = <<>>

\* get_weekly_mileage called on the history and on the same history in
\* another order
CallMileage ==
    /\ pc = "call"
    /\ ret = <<>>
    /\ \E k \in Shifts, rev \in BOOLEAN :
          ret' = <<[value |-> get_weekly_mileage(args.runs_history, args.current_date),
                    reordered |-> get_weekly_mileage(Shuffle(args.runs_history, k, rev),
                                                     args.current_date)]>>
    /\ UNCHANGED <<pipeVars, args>>

SpecMileage == InitMileage /\ [][CallMileage]_vars

\* timestamps of one day: every wall-clock hour, written with "Z" or with a
\* UTC offset
WallHours == 1200..1223
UtcOffsets == {-5, -1, 0, 2}

InitTimeOfDay ==
    /\ NoPipeline
    /\ args \in [timestamp : {Iso(w, o) : w \in WallHours, o \in UtcOffsets}]
    /\ ret = <<>>

CallTimeOfDay ==
    /\ pc = "call"
    /\ ret = <<>>
    /\ ret' = <<get_time_of_day(args.timestamp)>>
    /\ UNCHANGED <<pipeVars, args>>

SpecTimeOfDay == InitTimeOfDay /\ [][CallTimeOfDay]_vars

\* temperatures: math.nan and every whole degree from -MaxTemp to MaxTemp
MaxTemp == 120
Temperatures == {NaN} \cup {Degrees(d) : d \in -MaxTemp..MaxTemp}

InitTempBin ==
    /\ NoPipeline
    /\ args \in [temp_celsius : Temperatures]
    /\ ret = <<>>

CallTempBin ==
    /\ pc = "call"
    /\ ret = <<>>
    /\ ret' = <<get_temp_bin(args.temp_celsius)>>
    /\ UNCHANGED <<pipeVars, args>>

SpecTempBin == InitTempBin /\ [][CallTempBin]_vars

\* the feature values calculate_music_targets reads
TempBinNames == {"Very Cold", "Cold", "Mild", "Warm", "Hot", "Unknown"}
TimesOfDay == {"Morning", "Afternoon", "Evening", "Night"}
BpmValues == {135, 140, 150, 160, 165, 170, 180, 185}

InitTargets ==
    /\ NoPipeline
    /\ args \in [target_bpm : BpmValues, run_type : RunTypes, temp_bin : TempBinNames,
                 time_of_day : TimesOfDay]
    /\ ret = <<>>

CallTargets ==
    /\ pc = "call"
    /\ ret = <<>>
    /\ ret' = <<calculate_music_targets(args)>>
    /\ UNCHANGED <<pipeVars, args>>

SpecTargets == InitTargets /\ [][CallTargets]_vars

\* what the three regressors answer, in thousandths: tempo values below, inside
\* and above 100..200, whole and fractional; energy and valence values below,
\* inside and above 0..1
TempoPredictions == {42000, 99996, 100000, 135000, 152500, 165337, 171250, 199994, 200004, 260000}
UnitPredictions == {-200, 0, 4, 335, 601, 999, 1000, 1300}

InitPredict ==
    /\ NoPipeline
    /\ args \in [target_tempo : TempoPredictions, target_energy : UnitPredictions,
                 target_valence : UnitPredictions]
    /\ ret = <<>>

\* predict_music_features(model_artifacts, run_features) with regressors that
\* answer args
CallPredict ==
    /\ pc = "call"
    /\ ret = <<>>
    /\ ret' = <<predict_music_features(args)>>
    /\ UNCHANGED <<pipeVars, args>>

SpecPredict == InitPredict /\ [][CallPredict]_vars

\* the feature file: absent, or what feature_engineer_runs wrote for a history
FeatureFiles ==
    {[exists |-> FALSE, runs |-> <<>>]} \cup
    {[exists |-> TRUE, runs |-> [i \in 1..Len(h) |-> engineer_run(h, i - 1)]] : h \in Histories}
\* the hour analyze_recent_runs is called at: ten hours after the last run,
\* and 24 and 32 days after it
AnalysisTimes == {1240, 1800, 2000}

InitAnalyze ==
    /\ NoPipeline
    /\ args \in [ml_features : FeatureFiles, run_type : RunTypes, now : AnalysisTimes]
    /\ ret = <<>>

CallAnalyze ==
    /\ pc = "call"
    /\ ret = <<>>
    /\ ret' = <<analyze_recent_runs(args.ml_features, args.run_type, args.now)>>
    /\ UNCHANGED <<pipeVars, args>>

SpecAnalyze == InitAnalyze /\ [][CallAnalyze]_vars

\* app.run_pipeline and app.main.  The four scripts of run_pipeline, in list
\* order: fetch_strava, fetch_weather, feature_engineer, alternative_recommender
Scripts == 1..4
\* what can happen inside a script: "ok"; "raises", an exception leaves the
\* script; "handled", the failure is caught and printed inside the script.
\* fetch_strava re-raises what it catches, fetch_weather has no handler but
\* prints and ends when no run is cached, feature_engineer and
\* alternative_recommender catch every Exception (an error before their try
\* block, such as a failed import, still leaves the script)
ScriptOutcomes(script) ==
    IF script = 1 THEN {"ok", "raises"} ELSE {"ok", "raises", "handled"}
\* the exit status of the child process
returncode(ending) == IF ending = "raises" THEN 1 ELSE 0

\* subprocess.run(..., check=True) raises CalledProcessError on a non-zero
\* exit status
CalledProcessError(ending) == returncode(ending) # 0

Event(kind, stage, ending) == [kind |-> kind, stage |-> stage, outcome |-> ending]
StagesRun == SelectSeq(ret, LAMBDA e : e.kind = "stage")
Returned == \E i \in 1..Len(ret) : ret[i].kind = "return"
MainDone == \E i \in 1..Len(ret) : ret[i].kind = "main"

\* what each script does in this invocation, and whether latest_playlist.json
\* is there from an earlier invocation
InitApp ==
    /\ NoPipeline
    /\ args \in [outcome : {f \in [Scripts -> {"ok", "raises", "handled"}] :
                               \A s \in Scripts : f[s] \in ScriptOutcomes(s)},
                 metadata_exists : BOOLEAN]
    /\ ret = <<>>

\* one pass of the loop of run_pipeline: the next script runs to its end; if
\* subprocess.run raises, run_pipeline returns False
RunScript ==
    /\ pc = "call"
    /\ ~Returned
    /\ Len(StagesRun) < 4
    /\ LET script == Len(StagesRun) + 1
           ending == args.outcome[script]
           ran == Append(ret, Event("stage", script, ending))
       IN  ret' = IF CalledProcessError(ending)
                  THEN Append(ran, Event("return", script, "False"))
                  ELSE ran
    /\ UNCHANGED <<pipeVars, args>>

\* the loop is over: run_pipeline returns True
ReturnTrue ==
    /\ pc = "call"
    /\ ~Returned
    /\ Len(StagesRun) = 4
    /\ ret' = Append(ret, Event("return", 4, "True"))
    /\ UNCHANGED <<pipeVars, args>>

\* main after run_pipeline: on True it announces the playlist of
\* latest_playlist.json if that file exists; the file exists if it did before
\* or if the playlist script wrote it
Main ==
    /\ pc = "call"
    /\ Returned
    /\ ~MainDone
    /\ LET result == ret[Len(ret)].outcome
           written == Len(StagesRun) = 4 /\ StagesRun[4].outcome = "ok"
       IN  ret' = Append(ret, Event("main", 0,
                     IF result = "False" THEN "silent"
                     ELSE IF args.metadata_exists \/ written THEN "announced"
                     ELSE "no metadata"))
    /\ UNCHANGED <<pipeVars, args>>

NextApp == RunScript \/ ReturnTrue \/ Main
SpecApp == InitApp /\ [][NextApp]_vars

---------------------------------------------------------------------------
(* add_tracks_to_playlist on its own: URI lists around zero, one and two    *)
(* full batches, every batch accepted or one of them rejected.              *)

UriCounts ==
    0..MaxSmallLen
    \cup (ADD_TRACKS_BATCH - MaxSmallLen)..(ADD_TRACKS_BATCH + MaxSmallLen)
    \cup (2 * ADD_TRACKS_BATCH - MaxSmallLen)..(2 * ADD_TRACKS_BATCH + MaxSmallLen)

\* track_uris: distinct URIs
UriList(n) == [i \in 1..n |-> 1000 + i]

BatchCount(n) == (n + ADD_TRACKS_BATCH - 1) \div ADD_TRACKS_BATCH

InitAddTracks ==
    /\ NoPipeline
    /\ \E n \in UriCounts, rejected \in 0..(MaxSmallLen \div 2) :
          /\ rejected <= BatchCount(n)
          /\ args = [track_uris |-> UriList(n), failAt |-> rejected]
    /\ ret = <<>>

CallAddTracks ==
    /\ pc = "call"
    /\ ret = <<>>
    /\ ret' = <<add_tracks_to_playlist(args.track_uris, args.failAt)>>
    /\ UNCHANGED <<pipeVars, args>>

SpecAddTracks == InitAddTracks /\ [][CallAddTracks]_vars

---------------------------------------------------------------------------
(* The smart pipeline invoked twice on the same run, the same search        *)
(* answers and the same shuffle, with two predictions.                      *)

\* predictions as predict_music_features returns them
MusicFeatureValues ==
    { [target_tempo |-> 120, target_energy |-> 40, target_valence |-> 30],
      [target_tempo |-> 120, target_energy |-> 80, target_valence |-> 30],
      [target_tempo |-> 150, target_energy |-> 80, target_valence |-> 70],
      [target_tempo |-> 180, target_energy |-> 80, target_valence |-> 70] }

SmartRuns ==
    { f \in RunFeatureInputs :
        f.run_type \in {"long", "easy"} /\ f.temp_c = 15 /\ f.avg_pace_min_km # 70 }

Invocations == 2

InitSmart ==
    /\ NoPipeline
    /\ args \in [run_features : SmartRuns, responses : SearchScripts, k : Shifts,
                 rev : BOOLEAN, predictions : [1..Invocations -> MusicFeatureValues]]
    /\ ret = <<>>

\* one invocation, with the prediction of its turn
InvokeSmart ==
    /\ pc = "call"
    /\ Len(ret) < Invocations
    /\ ret' = Append(ret, smart_pipeline(args.run_features, args.responses, args.k, args.rev,
                                         args.predictions[Len(ret) + 1]))
    /\ UNCHANGED <<pipeVars, args>>

SpecSmart == InitSmart /\ [][InvokeSmart]_vars

---------------------------------------------------------------------------
(* Properties of the pipelines *)

\* every hit the search collaborator returned in this run, in call order
RawHits == Flatten([i \in 1..Len(search_log) |-> search_log[i].items])
FirstIndex(s, id) == CHOOSE i \in 1..Len(s) : s[i].id = id /\ \A j \in 1..(i - 1) : s[j].id # id
IdsOf(s) == {s[i].id : i \in 1..Len(s)} \ {0}
RegularCalls == SelectSeq(search_log, LAMBDA c: c.kind = "regular")
BackupCalls == SelectSeq(search_log, LAMBDA c: c.kind = "backup")
RegularIds == IdsOf(Flatten([i \in 1..Len(RegularCalls) |-> RegularCalls[i].items]))
\* all_tracks holds the deduplicated merge and has not been shuffled yet
Deduped == pc \in {"filter", "relax", "backup", "select"}
\* the search loop ran to its end
SearchLoopDone == pc \in {"filter", "relax", "backup", "select", "create", "add", "save"}
\* the filter stage of the filtered pipeline ran to its end
FilterStageDone == pc \in {"select", "create", "add", "save"} \/ create_calls > 0
    \/ outcome \in {"success", "failed"}

\* C1: in every pipeline variant an empty final selection means failure is
\* reported and nothing is built: create_playlist and add_tracks_to_playlist are
\* not called and latest_playlist.json keeps its content.
C1_EmptySelectionBuildsNothing ==
    selected_tracks = <<>> =>
        /\ create_calls = 0
        /\ add_calls = 0
        /\ latest_playlist = PreviousSnapshot
        /\ outcome # "success"

\* C3: in the filtered pipeline the strict filter (25, 0.25, 0.35) runs first;
\* the relaxed filter (40, 0.4, 0.5) runs if and only if fewer than 15 tracks
\* passed the strict one, at most once, and there is no third attempt.
C3_RelaxedIffFewerThan15 ==
    variant = "filtered" =>
        /\ Len(filter_log) <= 2
        /\ Len(filter_log) >= 1 =>
               filter_log[1].tol = [tempo |-> 25, energy |-> 25, valence |-> 35]
        /\ Len(filter_log) = 2 =>
               /\ filter_log[2].tol = [tempo |-> 40, energy |-> 40, valence |-> 50]
               /\ Len(filter_log[1].passed) < 15
        /\ FilterStageDone =>
               /\ Len(filter_log) >= 1
               /\ Len(filter_log) = 2 <=> Len(filter_log[1].passed) < 15

\* a run in which the strict filter let some tracks through, fewer than 15, and
\* the relaxed filter then ran and let more through
C3_Witness ==
    /\ variant = "filtered"
    /\ pc = "select"
    /\ Len(filter_log) = 2
    /\ Len(filter_log[1].passed) > 0
    /\ Len(filter_log[2].passed) > Len(filter_log[1].passed)

\* C4: when the relaxed retry runs, the tracks used for the playlist include
\* every track that passed the strict filter, whatever the audio-feature
\* collaborator answers to the second call.
C4_RelaxedKeepsStrictMatches ==
    (variant = "filtered" /\ Len(filter_log) = 2) =>
        \A i \in 1..Len(filter_log[1].passed) :
            \E j \in 1..Len(filtered_tracks) : filtered_tracks[j] = filter_log[1].passed[i]

\* C5: after the merge and deduplication every track id that occurred in a
\* search result is in the merged list exactly once, tracks without id are
\* absent, and the list is ordered by first occurrence in query-list order.
C5_MergedOnceInFirstSeenOrder ==
    Deduped =>
        /\ \A i \in 1..Len(RawHits) :
              RawHits[i].id # 0 =>
                  Cardinality({j \in 1..Len(all_tracks) : all_tracks[j].id = RawHits[i].id}) = 1
        /\ \A j \in 1..Len(all_tracks) :
              /\ all_tracks[j].id # 0
              /\ \E i \in 1..Len(RawHits) : RawHits[i].id = all_tracks[j].id
        /\ \A j1, j2 \in 1..Len(all_tracks) :
              j1 < j2 => FirstIndex(RawHits, all_tracks[j1].id) < FirstIndex(RawHits, all_tracks[j2].id)

\* a merge in which an id came back from two different calls, a hit had no id
\* and an id seen first was seen again after another id
C5_Witness ==
    /\ Deduped
    /\ \E a, b \in 1..Len(search_log) :
          a < b /\ IdsOf(search_log[a].items) \cap IdsOf(search_log[b].items) # {}
    /\ \E i \in 1..Len(RawHits) : RawHits[i].id = 0
    /\ \E i, j, k \in 1..Len(RawHits) :
          i < j /\ j < k /\ RawHits[i].id = RawHits[k].id /\ RawHits[j].id # RawHits[i].id
             /\ RawHits[i].id # 0 /\ RawHits[j].id # 0
    /\ Len(all_tracks) >= 2

\* C6: of several hits with one id the record kept is the first one in merge
\* order; a later duplicate never replaces it.
C6_FirstRecordKept ==
    Deduped =>
        \A j \in 1..Len(all_tracks) :
            all_tracks[j] = RawHits[FirstIndex(RawHits, all_tracks[j].id)]

\* C7 as stated: every query built by get_search_queries_for_run is issued
\* exactly once.
C7_EveryBuiltQueryIssued ==
    (variant = "ml" /\ SearchLoopDone) =>
        LET built == get_search_queries_for_run(run_features)
        IN  \A b \in 1..Len(built) :
                Cardinality({i \in 1..Len(RegularCalls) : RegularCalls[i].query = built[b]}) = 1

\* C7 amended: the first five queries built (all of them when at most five are
\* built) are issued, in list order, each exactly once, and their results are
\* merged into the candidate set; a sixth query is never issued.
C7_FirstFiveQueriesIssued ==
    (variant = "ml" /\ SearchLoopDone) =>
        LET built == get_search_queries_for_run(run_features)
            first5 == SubSeq(built, 1, IF Len(built) < 5 THEN Len(built) ELSE 5)
        IN  /\ Len(RegularCalls) = Len(first5)
            /\ \A i \in 1..Len(first5) : RegularCalls[i].query = first5[i]
            /\ \A i, j \in 1..Len(first5) : i # j => first5[i] # first5[j]
            /\ RegularIds \subseteq IdsOf(all_tracks)

\* a long hot fast run: six queries are built, five were issued and found tracks
C7_Witness ==
    /\ variant = "ml"
    /\ pc = "select"
    /\ Len(get_search_queries_for_run(run_features)) = 6
    /\ Len(RegularCalls) = 5
    /\ RegularIds # {}

\* C8: in the smart pipeline one backup query is issued if and only if fewer
\* than 20 unique tracks came out of the regular queries; its results are merged
\* and deduplicated into the candidates; never more than one is issued, also
\* when the count stays below 20.
C8_OneBackupIffBelowMinimum ==
    variant = "ml" =>
        /\ Len(BackupCalls) <= 1
        /\ Len(BackupCalls) = 1 => Cardinality(RegularIds) < 20
        /\ (pc \in {"select", "create", "add", "save"} \/ create_calls > 0) =>
              /\ Len(BackupCalls) = 1 <=> Cardinality(RegularIds) < 20
              /\ IdsOf(all_tracks) = IdsOf(RawHits)
              /\ Len(all_tracks) = Cardinality(IdsOf(RawHits))

\* the backup query ran, brought new tracks, and the count is still below 20
C8_Witness ==
    /\ variant = "ml"
    /\ pc = "select"
    /\ Len(BackupCalls) = 1
    /\ IdsOf(BackupCalls[1].items) \ RegularIds # {}
    /\ Len(all_tracks) < 20

---------------------------------------------------------------------------
(* Properties of the selection functions *)

\* C2: filter_tracks_by_audio_features returns exactly the candidates whose
\* tempo, energy and valence are within tolerance of the target (bounds
\* inclusive), in candidate order, for a list of any length, lists of more than
\* 100 tracks included.  Checked for the calls whose audio-features request
\* was answered (status 200).
WithinTolerance(t) ==
    LET f == AudioFeatureOf(t.id)
    IN  /\ t.id # 0
        /\ f.present
        /\ f.tempo - args.target.target_tempo <= args.tol.tempo
        /\ args.target.target_tempo - f.tempo <= args.tol.tempo
        /\ f.energy - args.target.target_energy <= args.tol.energy
        /\ args.target.target_energy - f.energy <= args.tol.energy
        /\ f.valence - args.target.target_valence <= args.tol.valence
        /\ args.target.target_valence - f.valence <= args.tol.valence

C2_FilterKeepsExactlyMatches ==
    (pc = "returned" /\ ret[1].status = 200) =>
        ret[1].value = SelectSeq(args.tracks, WithinTolerance)

Elements(s) == {s[i] : i \in 1..Len(s)}
NoRepeats(s) == \A i, j \in 1..Len(s) : i # j => s[i] # s[j]

\* C9: for a long run of at least 12 km the warm-up, main and finish segments,
\* concatenated in that order, partition the selection: pairwise disjoint,
\* min(len(tracks), 30) tracks in all, no track twice, for a list of distinct
\* tracks of any length.
C9_SegmentsPartitionSelection ==
    (args.run_type = "long" /\ args.distance_km >= 12) =>
        \A e \in 1..Len(ret) :
            /\ ret[e].result = ret[e].warmup \o ret[e].main_section \o ret[e].finish
            /\ Elements(ret[e].warmup) \cap Elements(ret[e].main_section) = {}
            /\ Elements(ret[e].warmup) \cap Elements(ret[e].finish) = {}
            /\ Elements(ret[e].main_section) \cap Elements(ret[e].finish) = {}
            /\ Len(ret[e].result) = (IF Len(args.tracks) < 30 THEN Len(args.tracks) ELSE 30)
            /\ NoRepeats(ret[e].result)

\* C10: for a long run of at least 12 km and a given list of 30 tracks, the set
\* of tracks in the first 6 positions and the set in the last 6 positions are
\* the same in every execution.
C10_PoolsSameInEveryExecution ==
    (args.run_type = "long" /\ args.distance_km >= 12 /\ Len(args.tracks) = 30) =>
        \A e1, e2 \in 1..Len(ret) :
            /\ Elements(SubSeq(ret[e1].result, 1, 6)) = Elements(SubSeq(ret[e2].result, 1, 6))
            /\ Elements(SubSeq(ret[e1].result, 25, 30)) = Elements(SubSeq(ret[e2].result, 25, 30))

\* the selection step of the pipeline ran
SelectionDone == pc \in {"create", "add", "save"} \/ create_calls > 0
\* the list the selection was drawn from
Candidates == IF variant = "filtered" THEN filtered_tracks ELSE all_tracks

\* C11: the final selection has at most 30 tracks, no track twice and only
\* tracks of the candidate list it was drawn from; exactly 30 when more than 30
\* candidates are available and all candidates otherwise.  For the random
\* sampling of the alternative pipelines and for the non-progressive branch of
\* create_progressive_playlist.
C11_SelectionCappedAndDistinct ==
    (SelectionDone /\ (variant = "ml" => ~segments.progressive)) =>
        /\ Len(selected_tracks) <= 30
        /\ NoRepeats(selected_tracks)
        /\ Elements(selected_tracks) \subseteq Elements(Candidates)
        /\ Len(selected_tracks) = (IF Len(Candidates) > 30 THEN 30 ELSE Len(Candidates))

\* the simple pipeline sampled 30 tracks out of more than 30 candidates
C11_Witness ==
    /\ variant = "simple"
    /\ pc = "create"
    /\ Len(all_tracks) > 30
    /\ Len(selected_tracks) = 30

---------------------------------------------------------------------------
(* Properties of the feature functions *)

\* C12: map_pace_to_bpm(p) is 180 for 4.0 <= p < 4.5, 170 for 4.5 <= p < 5.0,
\* 165 for 5.0 <= p < 5.5, 160 for 5.5 <= p < 6.0, 150 for 6.0 <= p < 7.0,
\* 140 for 7.0 <= p < 8.0, 185 for p < 4.0 and 135 for p >= 8.0; a boundary
\* belongs to the interval it is the lower bound of, and a slower pace never
\* gets a higher BPM.
C12_PaceToBpmTable ==
    ret # <<>> =>
        LET p == args.pace_min_km
        IN  /\ (p < 40) => ret[1] = 185
            /\ (40 <= p /\ p < 45) => ret[1] = 180
            /\ (45 <= p /\ p < 50) => ret[1] = 170
            /\ (50 <= p /\ p < 55) => ret[1] = 165
            /\ (55 <= p /\ p < 60) => ret[1] = 160
            /\ (60 <= p /\ p < 70) => ret[1] = 150
            /\ (70 <= p /\ p < 80) => ret[1] = 140
            /\ (p >= 80) => ret[1] = 135
            /\ (p <= args.other_pace) => ret[2] <= ret[1]

\* the boundary pace 4.5 got 170 and the slower boundary pace 8.0 got 135
C12_Witness ==
    /\ ret # <<>>
    /\ args.pace_min_km = 45
    /\ ret[1] = 170
    /\ args.other_pace = 80
    /\ ret[2] = 135

\* C13: in feature_engineer_runs a run whose average speed is missing or zero
\* is treated as having no pace data: the pace thresholds do not make it a
\* race or tempo run, and its target_bpm is not the 185 of the fastest paces.
C13_NoSpeedIsNoPaceData ==
    \A i \in 1..Len(ret) :
        LET run == args.runs_with_weather[i]
        IN  (~run.avg_speed.present \/ run.avg_speed.value = 0) =>
                /\ ret[i].target_bpm # 185
                /\ ret[i].run_type = "race" =>
                       AnyKeyword(str_lower(run.name), race_keywords)
                /\ ret[i].run_type = "tempo" =>
                       AnyKeyword(str_lower(run.name), tempo_keywords)

\* the type the keywords in each of the names stand for, the groups taken in
\* the order interval, tempo, easy, race: "Tempo Intervals" holds "interval",
\* "Christmas Loop" holds "mas", "Easy Tempo" holds "tempo", "Race Recovery"
\* holds "recovery", "Easy jog" holds "easy", "5k PR" and "Spring Loop" hold "pr"
NamedType(run_name) ==
    IF run_name \in {TempoIntervals, ChristmasLoop} THEN "interval"
    ELSE IF run_name = EasyTempo THEN "tempo"
    ELSE IF run_name \in {RaceRecovery, EasyJog} THEN "easy"
    ELSE IF run_name \in {FiveKPR, SpringLoop} THEN "race"
    ELSE "none"

\* C14: detect_run_type gives the type of the first keyword group (interval,
\* tempo, easy, race) the name holds a keyword of, whatever pace and distance;
\* without keyword, long for more than 15 km, whatever the pace; otherwise race
\* for pace < 4.5, tempo for 4.5 <= pace < 5.0, easy for pace > 6.5 and steady
\* for every other pace.
C14_RunTypePrecedence ==
    ret # <<>> =>
        ret[1] = (IF NamedType(args.run_name) # "none" THEN NamedType(args.run_name)
                  ELSE IF args.distance_km > 15000 THEN "long"
                  ELSE IF args.pace_min_km < 45 THEN "race"
                  ELSE IF 45 <= args.pace_min_km /\ args.pace_min_km < 50 THEN "tempo"
                  ELSE IF args.pace_min_km > 65 THEN "easy"
                  ELSE "steady")

\* a run of just over 15 km at race pace, named without keyword, came out long
C14_Witness ==
    /\ ret = <<"long">>
    /\ args.run_name = ParkRun
    /\ args.pace_min_km = 40
    /\ args.distance_km = 15001

\* the UTC instant of the current date and of the start of history entry i
CurrentInstant == args.current_date.wall - args.current_date.offset
StartInstant(i) ==
    args.runs_history[i].start_time.wall - args.runs_history[i].start_time.offset
Timed == {i \in 1..Len(args.runs_history) : args.runs_history[i].start_time.present}
\* the sum of the distances of the history entries at the given positions
RECURSIVE Distance(_)
Distance(positions) ==
    IF positions = {} THEN 0
    ELSE LET i == CHOOSE i \in positions : TRUE
         IN  args.runs_history[i].distance_m + Distance(positions \ {i})

SevenDaysPrior == {i \in Timed : StartInstant(i) = CurrentInstant - 168}
StrictlyInside ==
    {i \in Timed : CurrentInstant - 168 < StartInstant(i) /\ StartInstant(i) < CurrentInstant}

\* C16 as stated: with a run that started exactly 7 days before the current
\* run in the history, that run is left out of the sum and the runs strictly
\* inside the window are counted.
C16_SevenDayPriorRunExcluded ==
    (ret # <<>> /\ SevenDaysPrior # {}) => ret[1].value = Distance(StrictlyInside)

\* C16 amended: the run that started exactly 7 days before is counted, like
\* the runs strictly inside the window; a run that started earlier is not.
C16_SevenDayPriorRunIncluded ==
    (ret # <<>> /\ SevenDaysPrior # {}) =>
        ret[1].value = Distance(SevenDaysPrior) + Distance(StrictlyInside)

\* a history of a run 169 hours before, a run exactly 168 hours before and a
\* run one hour before the current date: the last two are counted
C16_Witness ==
    /\ ret # <<>>
    /\ Len(args.runs_history) = 3
    /\ \A i \in 1..3 : args.runs_history[i].start_time.present
    /\ StartInstant(1) = CurrentInstant - 169
    /\ StartInstant(2) = CurrentInstant - 168
    /\ StartInstant(3) = CurrentInstant - 1
    /\ ret[1].value = args.runs_history[2].distance_m + args.runs_history[3].distance_m

\* the positions of the history entries that started before entry i did
StartedBefore(i) ==
    {j \in 1..Len(args.runs_with_weather) :
        ToUtc(args.runs_with_weather[j].start_time) < ToUtc(args.runs_with_weather[i].start_time)}
\* the pace consistency of a sample made of the entries at the given positions:
\* the deviation of their non-zero paces, 0 for fewer than two
SampleConsistency(positions) ==
    LET paces == [j \in 1..Len(args.runs_with_weather) |->
                     IF j \in positions THEN avg_pace_min_per_km(args.runs_with_weather[j])
                     ELSE 0]
        nonzero == SelectSeq(paces, LAMBDA p : p > 0)
    IN  IF Len(nonzero) < 2 THEN 0 ELSE stdev(nonzero)

\* C17: for the run at any position of any history list given to
\* feature_engineer_runs, the pace consistency is that of a sample of at most
\* 5 runs that all started before that run (0 when the sample has fewer than
\* two non-zero paces): no run that started later is sampled, whatever the
\* order of the list.
C17_ConsistencySamplesPriorRunsOnly ==
    \A i \in 1..Len(ret) :
        \E sample \in SUBSET StartedBefore(i) :
            /\ Cardinality(sample) <= 5
            /\ ret[i].pace_consistency = SampleConsistency(sample)

\* C18: time_of_day is derived from the run's local hour h, the hour written
\* in its timestamp, also when the timestamp carries a UTC offset: Morning for
\* 5 <= h < 12, Afternoon for 12 <= h < 17, Evening for 17 <= h < 21, Night
\* for h >= 21 or h < 5.
C18_TimeOfDayFromLocalHour ==
    ret # <<>> =>
        LET h == args.timestamp.wall % 24
        IN  /\ (5 <= h /\ h < 12) => ret[1] = "Morning"
            /\ (12 <= h /\ h < 17) => ret[1] = "Afternoon"
            /\ (17 <= h /\ h < 21) => ret[1] = "Evening"
            /\ (h >= 21 \/ h < 5) => ret[1] = "Night"

C20_EnergyAndValenceInUnitRange ==
    ret # <<>> =>
        /\ 0 <= ret[1].target_energy
        /\ ret[1].target_energy <= 100
        /\ 0 <= ret[1].target_valence
        /\ ret[1].target_valence <= 100

\* a race on a hot morning: valence 0.8 raised to the ceiling 0.9 by the
\* temperature step and brought to 0.8 by the morning step
C20_Witness ==
    /\ ret # <<>>
    /\ args.run_type = "race"
    /\ args.temp_bin = "Hot"
    /\ args.time_of_day = "Morning"
    /\ ret[1].target_energy = 90
    /\ ret[1].target_valence = 80

\* C21: calculate_music_targets returns target_tempo equal to target_bpm, and
\* energy e and valence v from three steps in this order: (1) run_type sets
\* (e, v) to interval (0.85, 0.70), tempo (0.75, 0.65), easy (0.40, 0.60), race
\* (0.90, 0.80), long (0.55, 0.60), else (0.60, 0.50); (2) Very Cold or Cold
\* sets v = max(0.2, v - 0.15), Warm or Hot sets v = min(0.9, v + 0.15);
\* (3) Morning sets v = min(0.8, v + 0.1), Night sets e = max(0.3, e - 0.15).
\* The temperature step leaves e and the Night step leaves v as they are.
C21_TargetsInThreeSteps ==
    ret # <<>> =>
        LET e1 == CASE args.run_type = "interval" -> 85 [] args.run_type = "tempo" -> 75
                    [] args.run_type = "easy" -> 40 [] args.run_type = "race" -> 90
                    [] args.run_type = "long" -> 55 [] OTHER -> 60
            v1 == CASE args.run_type = "interval" -> 70 [] args.run_type = "tempo" -> 65
                    [] args.run_type = "easy" -> 60 [] args.run_type = "race" -> 80
                    [] args.run_type = "long" -> 60 [] OTHER -> 50
            v2 == CASE args.temp_bin \in {"Very Cold", "Cold"} ->
                           (IF v1 - 15 > 20 THEN v1 - 15 ELSE 20)
                    [] args.temp_bin \in {"Warm", "Hot"} ->
                           (IF v1 + 15 < 90 THEN v1 + 15 ELSE 90)
                    [] OTHER -> v1
            v3 == IF args.time_of_day = "Morning"
                  THEN (IF v2 + 10 < 80 THEN v2 + 10 ELSE 80)
                  ELSE v2
            e3 == IF args.time_of_day = "Night"
                  THEN (IF e1 - 15 > 30 THEN e1 - 15 ELSE 30)
                  ELSE e1
        IN  /\ ret[1].target_tempo = args.target_bpm
            /\ ret[1].target_energy = e3
            /\ ret[1].target_valence = v3

\* an interval session on a warm morning: valence 0.70, then 0.85, then the
\* morning ceiling 0.80; energy stays 0.85
C21_Witness ==
    /\ ret # <<>>
    /\ args.run_type = "interval"
    /\ args.temp_bin = "Warm"
    /\ args.time_of_day = "Morning"
    /\ ret[1].target_energy = 85
    /\ ret[1].target_valence = 80
    /\ ret[1].target_tempo = args.target_bpm

---------------------------------------------------------------------------
(* Properties of the learned predictor and of the training-load analysis *)

\* C22: for every value the tempo model predicts, predict_music_features
\* returns target_tempo as an integer within [100, 200]; target_energy and
\* target_valence are returned within [0, 1], rounded to 2 decimals (returned
\* values are in hundredths).
C22_TempoIntegerAndUnitRanges ==
    ret # <<>> =>
        /\ ret[1].target_tempo % 100 = 0
        /\ 10000 <= ret[1].target_tempo
        /\ ret[1].target_tempo <= 20000
        /\ 0 <= ret[1].target_energy
        /\ ret[1].target_energy <= 100
        /\ 0 <= ret[1].target_valence
        /\ ret[1].target_valence <= 100

\* the runs of the feature file that started in the 30 days before the call,
\* and among them the runs the pace suggestion is based on: those of the
\* requested type, or all of them when there is none of that type
FileRuns == args.ml_features.runs
RecentPositions ==
    {i \in 1..Len(FileRuns) :
        FileRuns[i].start_time_utc.wall - FileRuns[i].start_time_utc.offset >= args.now - 720}
MatchingPositions ==
    LET typed == {i \in RecentPositions : FileRuns[i].run_type = args.run_type}
    IN  IF typed = {} THEN RecentPositions ELSE typed
PacedPositions == {i \in MatchingPositions : FileRuns[i].avg_pace_min_km > 0}
RECURSIVE PaceSum(_)
PaceSum(positions) ==
    IF positions = {} THEN 0
    ELSE LET i == CHOOSE i \in positions : TRUE
         IN  FileRuns[i].avg_pace_min_km + PaceSum(positions \ {i})
\* the mean of the non-zero paces of the matching runs, with the 0.05 nudge
MeanSuggestion ==
    LET mean == (100 * PaceSum(PacedPositions)) \div Cardinality(PacedPositions)
    IN  IF args.run_type \in {"tempo", "interval"} THEN mean - 50 ELSE mean

C24_EmptyHistoryAllUnknown ==
    (ret # <<>> /\ (~args.ml_features.exists \/ RecentPositions = {})) =>
        /\ ret[1].suggested_pace.null
        /\ ret[1].pace_range.null
        /\ ret[1].fatigue_level = "unknown"
        /\ ret[1].weekly_load = 0
        /\ ret[1].recent_runs_count = 0

---------------------------------------------------------------------------
(* Properties of the orchestration *)

\* C25: in run_pipeline the four stages run in the order fetch runs, fetch
\* weather, engineer features, generate playlist; a failure inside any stage
\* aborts the invocation: no later stage is started, run_pipeline returns
\* False, and main never announces a generated playlist after a failed stage.
C25_FailedStageAborts ==
    /\ \A i \in 1..Len(StagesRun) : StagesRun[i].stage = i
    /\ \A i \in 1..Len(StagesRun) :
          StagesRun[i].outcome # "ok" =>
              /\ Len(StagesRun) = i
              /\ \A j \in 1..Len(ret) :
                    /\ ret[j].kind = "return" => ret[j].outcome = "False"
                    /\ ret[j].kind = "main" => ret[j].outcome # "announced"

---------------------------------------------------------------------------
(* Properties of the playlist steps, in every pipeline variant *)

\* every batch of the last add_tracks_to_playlist call was accepted
AllTracksAdded ==
    /\ playlists # <<>>
    /\ playlists[Len(playlists)] = TrackUris(selected_tracks)

\* C26: in every pipeline variant the latest-playlist snapshot is written at
\* most once per invocation, as the last step, and only after create_playlist
\* and every add batch succeeded; when creation or addition fails (or the run
\* ends earlier) the snapshot keeps its previous content while the created
\* playlist stays; there is one latest-playlist record at every moment.
C26_SnapshotWrittenOnceAtTheEnd ==
    /\ snapshot_writes \in {0, 1}
    /\ snapshot_writes = 1 =>
          /\ pc = "done"
          /\ outcome = "success"
          /\ create_calls = 1
          /\ add_calls = 1
          /\ Len(playlists) = 1
          /\ AllTracksAdded
          /\ latest_playlist = [playlist_id |-> Len(playlists),
                                track_count |-> Len(selected_tracks)]
    /\ snapshot_writes = 0 => latest_playlist = PreviousSnapshot
    /\ (pc = "done" /\ outcome # "success") =>
          /\ snapshot_writes = 0
          /\ latest_playlist = PreviousSnapshot
          /\ add_calls = 1 => Len(playlists) = 1
    /\ DOMAIN latest_playlist = {"playlist_id", "track_count"}

\* a run whose add call was rejected: the playlist exists, the snapshot is the old one
C26_Witness ==
    /\ variant = "recommendations"
    /\ pc = "done"
    /\ outcome = "error"
    /\ add_calls = 1
    /\ Len(playlists) = 1
    /\ latest_playlist = PreviousSnapshot

---------------------------------------------------------------------------
(* Properties of the playlist client *)

RECURSIVE SentBefore(_, _)
\* how many URIs the batches before batch b hold
SentBefore(posts, b) == IF b <= 1 THEN 0 ELSE SentBefore(posts, b - 1) + Len(posts[b - 1])

\* the batches are consecutive pieces of the input, in input order
ConsecutivePieces(posts, uris) ==
    \A b \in 1..Len(posts) :
        /\ Len(posts[b]) \in 1..100
        /\ SentBefore(posts, b) + Len(posts[b]) <= Len(uris)
        /\ \A j \in 1..Len(posts[b]) : posts[b][j] = uris[SentBefore(posts, b) + j]

\* C27: add_tracks_to_playlist sends the URIs in consecutive batches of at
\* most 100, in input order; when no batch is rejected the batches together
\* are the input list, each URI in exactly one batch; when a batch is
\* rejected the call raises, no later batch is sent and the batches accepted
\* before it stay in the playlist.
C27_ConsecutiveBatchesOfHundred ==
    ret # <<>> /\ DOMAIN args = {"track_uris", "failAt"} =>
        LET r == ret[1]
            uris == args.track_uris
            sent == SentBefore(r.posts, Len(r.posts) + 1)
        IN  /\ ConsecutivePieces(r.posts, uris)
            /\ \A b \in 1..(Len(r.posts) - 1) : Len(r.posts[b]) = 100
            /\ ~r.raised =>
                  /\ sent = Len(uris)
                  /\ r.added = uris
            /\ r.raised <=> args.failAt # 0
            /\ r.raised =>
                  /\ Len(r.posts) = args.failAt
                  /\ r.added = SubSeq(uris, 1, SentBefore(r.posts, args.failAt))
                  /\ Len(r.added) = 100 * (args.failAt - 1)

\* more than two batches, the third one rejected: two batches stay
C27_Witness ==
    /\ ret # <<>>
    /\ DOMAIN args = {"track_uris", "failAt"}
    /\ Len(args.track_uris) = 201
    /\ args.failAt = 3
    /\ ret[1].raised
    /\ Len(ret[1].added) = 200

---------------------------------------------------------------------------
(* Properties of the error handling, in every pipeline variant *)

\* a call that raised is the last call of its log
NothingAfterFailure(log) == \A i \in 1..(Len(log) - 1) : ~log[i].raised

RelaxedFilterCalls == SelectSeq(filter_log, LAMBDA c : c.tol = RELAXED_TOLERANCE)

\* C28: in every pipeline variant no failed external call is re-issued; the
\* only retry-like steps are the relaxed filter and the broadening query,
\* each taken at most once per invocation.
C28_NoCallReissuedAfterFailure ==
    /\ NothingAfterFailure(search_log)
    /\ NothingAfterFailure(api_log)
    /\ Len(RelaxedFilterCalls) <= 1
    /\ Len(BackupCalls) <= 1

---------------------------------------------------------------------------
(* Properties of the recommendations pipeline *)

RecommendationCalls == SelectSeq(api_log, LAMBDA c : c.endpoint = "recommendations")

\* a keyword argument whose name begins with seed_
CarriesSeed(call) ==
    \E i \in 1..Len(call.params) : call.params[i].key.prefix = "seed_"

\* C29: in the recommendations pipeline every get_recommendations call, the
\* first and the fallback one, carries a seed_ parameter whatever the
\* genre-seed and top-artist endpoints answer, so ValueError is never raised;
\* the top-artist time ranges are asked in the order medium_term, long_term,
\* short_term and the asking stops at the first non-empty answer.
C29_SeedAlwaysPresentRangesInOrder ==
    /\ \A i \in 1..Len(RecommendationCalls) :
          /\ CarriesSeed(RecommendationCalls[i])
          /\ RecommendationCalls[i].error # "ValueError"
    /\ Len(RecommendationCalls) <= 2
    /\ Len(TopArtistCalls) <= 3
    /\ \A i \in 1..Len(TopArtistCalls) :
          /\ TopArtistCalls[i].params = <<"medium_term", "long_term", "short_term">>[i]
          /\ i < Len(TopArtistCalls) => TopArtistCalls[i].items = <<>>
    /\ (RecommendationCalls # <<>> /\ TopArtistCalls # <<>>) =>
          \/ TopArtistCalls[Len(TopArtistCalls)].items # <<>>
          \/ Len(TopArtistCalls) = 3

\* no genre and no artist in any time range, the first request refused: both
\* requests went out with a seed
C29_Witness ==
    /\ variant = "recommendations"
    /\ Len(TopArtistCalls) = 3
    /\ Len(RecommendationCalls) = 2
    /\ api_log[1].items = <<>>
    /\ \A i \in 1..2 : CarriesSeed(RecommendationCalls[i])
    /\ RecommendationCalls[1].error = "RuntimeError"

---------------------------------------------------------------------------
(* Properties of the smart pipeline's use of the prediction *)

SmartInvocations == DOMAIN args = {"run_features", "responses", "k", "rev", "predictions"}

\* C30: in the smart pipeline the tracks added to the playlist, and their
\* order, do not depend on the predicted music features: two invocations with
\* the same run features, search results and shuffle outcome but different
\* predictions add the same tracks in the same order; the prediction shows
\* only in the playlist's title and description and in the saved metadata.
C30_AddedTracksIndependentOfPrediction ==
    SmartInvocations =>
      \A i, j \in 1..Len(ret) :
        LET first == ret[i]
            second == ret[j]
            p == <<args.predictions[i], args.predictions[j]>>
        IN  /\ first.added = second.added
            /\ first.posts = second.posts
            /\ first.output_metadata.track_count = second.output_metadata.track_count
            /\ p[1].target_tempo # p[2].target_tempo =>
                  first.created.name # second.created.name
            /\ (p[1].target_tempo # p[2].target_tempo \/ p[1].target_energy # p[2].target_energy)
                  => first.created.description # second.created.description
            /\ p[1] # p[2] =>
                  first.output_metadata.predicted_music_features
                      # second.output_metadata.predicted_music_features

\* two invocations that differ in predicted tempo, energy and valence and add
\* a full, ordered playlist
C30_Witness ==
    /\ SmartInvocations
    /\ Len(ret) = 2
    /\ args.predictions[1].target_tempo # args.predictions[2].target_tempo
    /\ args.predictions[1].target_energy # args.predictions[2].target_energy
    /\ args.predictions[1].target_valence # args.predictions[2].target_valence
    /\ Len(ret[1].added) = 30
    /\ ret[1].added = ret[2].added
    /\ ret[1].created.name # ret[2].created.name

====
